---- MODULE Spec2Model ----
(***************************************************************************)
(* Displayed-data export pipeline of useDisplayedDataExport.ts:            *)
(*   - escapeCSVValue / createCSVContent / exportToCSV (CSV serializer)    *)
(*   - extractTableData (cell extraction inside the scroll/overflow        *)
(*     neutralizer) and exportDisplayedData (orchestrator)                 *)
(*   - scanForTablesIncludingSubTabs (tab-aware recursive collector)       *)
(* Text is modelled as a sequence of one-character strings, so quoting,    *)
(* joining and trimming are computed character by character.               *)
(***************************************************************************)
EXTENDS Integers, Sequences, FiniteSets, TLC

VARIABLES
    \* --- escapeCSVValue applied to one field
    escIn, escOut, escPc,
    \* --- exportToCSV applied to one list of TableData
    csvTables, csvCfg, csvOut, csvPc,
    \* --- exportDisplayedData on the export document
    tblStyle,       \* inline width and max-width of every table
    contStyle,      \* inline overflow and scroll offset of every container
    ecfg,         \* the ExportConfig of the call
    epc,            \* where the call stands
    eidx,           \* index of the next live table to extract
    etables,     \* the TableData extracted so far
    downloads,      \* the artifacts downloaded or saved so far
    isExporting,    \* the exporting flag
    eerror,         \* the failure the call ends with, "none" if none
    restoreFault,   \* whether an assignment of a finally block threw
    \* --- scanForTablesIncludingSubTabs on a document
    docId,          \* the document scanned
    active,         \* the active trigger of every tab group (0: none)
    spc,            \* where the run stands
    stack,          \* the processTabLevel calls in progress, innermost last
    collected,      \* the DisplayedTable entries collected so far
    seen,           \* the table elements already collected
    snapshot,       \* initialActiveTriggers
    panels,         \* activeTabContents of the pass over the active panels
    pidx,           \* index of the next entry of panels
    ridx,           \* index of the next trigger to restore
    faults,         \* exceptions thrown so far in the run
    attempted,      \* triggers whose activation the walk has attempted
    restored,       \* triggers the restore loop has clicked, in order
    activateFailed, \* triggers whose activation in the walk threw
    restoreFailed,  \* triggers whose restoring click threw
    activatedAny,   \* whether the walk has clicked a trigger
    unprotected,    \* whether an exception was thrown outside every try block
    now,            \* Date.now(), in timer periods elapsed since the call
    \* --- the extraction of extractTableData applied to the rows of one table
    exRows, exOpts, exOut, exPc,
    exCsv,          \* createCSVContent of the extracted TableData
    \* --- the naming of scanForTables applied to one table
    nmCaption,      \* index of the caption text in CaptionPool
    nmSibs,         \* the preceding siblings, nearest first, as indices in SiblingPool
    nmIndex,        \* index of the table in the scan, from 0
    nmOut, nmPc,
    \* --- the export buttons of TableExportControls
    hPc,            \* where every handleAdvancedExport invocation stands
    hLeft,          \* the activations its tab walk has still to make
    hLog,           \* the invocations whose walk clicked a trigger, in order
    displayedExporting  \* isExporting of useDisplayedDataExport

escVars == <<escIn, escOut, escPc>>
csvVars == <<csvTables, csvCfg, csvOut, csvPc>>
exportVars == <<tblStyle, contStyle, ecfg, epc, eidx, etables, downloads, isExporting,
                eerror, restoreFault>>
scanVars == <<docId, active, spc, stack, collected, seen, snapshot, panels, pidx, ridx, faults,
              attempted, restored, activateFailed, restoreFailed, activatedAny, unprotected, now>>
extractVars == <<exRows, exOpts, exOut, exPc, exCsv>>
nameVars == <<nmCaption, nmSibs, nmIndex, nmOut, nmPc>>
ctlVars == <<hPc, hLeft, hLog, displayedExporting>>
vars == <<escVars, csvVars, exportVars, scanVars, extractVars, nameVars, ctlVars>>
notEscVars == <<csvVars, exportVars, scanVars, extractVars, nameVars, ctlVars>>
notCsvVars == <<escVars, exportVars, scanVars, extractVars, nameVars, ctlVars>>
notExportVars == <<escVars, csvVars, scanVars, extractVars, nameVars, ctlVars>>
notScanVars == <<escVars, csvVars, exportVars, extractVars, nameVars, ctlVars>>
notExtractVars == <<escVars, csvVars, exportVars, scanVars, nameVars, ctlVars>>
notCtlVars == <<escVars, csvVars, exportVars, scanVars, extractVars, nameVars>>
notNameVars == <<escVars, csvVars, exportVars, scanVars, extractVars, ctlVars>>

(***************************************************************************)
(* Bounds                                                                  *)
(***************************************************************************)
MaxLen == 3        \* longest field given to escapeCSVValue
MaxRows == 2       \* most data rows of a TableData given to exportToCSV
MaxFaults == 2     \* most exceptions thrown during one scan
MaxTrs == 3        \* most rows of a table given to the extraction
MaxCalls == 2      \* most clicks on the export buttons
MaxWalk == 3       \* most activations of one tab walk

(***************************************************************************)
(* Characters and text helpers                                             *)
(***************************************************************************)
Quote == "\""
NL == "\n"
Comma == ","

Chars == {"a", Comma, Quote, NL}

RECURSIVE StringsUpTo(_)
StringsUpTo(n) ==
    IF n = 0 THEN {<<>>}
    ELSE LET shorter == StringsUpTo(n - 1)
         IN  shorter \cup {Append(s, c) : s \in {t \in shorter : Len(t) = n - 1}, c \in Chars}

\* String.prototype.includes for a single character
Includes(s, c) == \E i \in 1..Len(s) : s[i] = c

\* value.replace(/"/g, '""')
RECURSIVE ReplaceQuotes(_)
ReplaceQuotes(s) ==
    IF s = <<>> THEN <<>>
    ELSE (IF Head(s) = Quote THEN <<Quote, Quote>> ELSE <<Head(s)>>) \o ReplaceQuotes(Tail(s))

\* Array.prototype.join(sep) over a list of texts
RECURSIVE Join(_, _)
Join(parts, sep) ==
    IF parts = <<>> THEN <<>>
    ELSE IF Len(parts) = 1 THEN parts[1]
    ELSE parts[1] \o sep \o Join(Tail(parts), sep)

\* Number.prototype.toString for 0..99
DigitChar == <<"0", "1", "2", "3", "4", "5", "6", "7", "8", "9">>
NumToString(n) ==
    IF n < 10 THEN <<DigitChar[n + 1]>>
    ELSE <<DigitChar[(n \div 10) + 1], DigitChar[(n % 10) + 1]>>

Alnum == {"a","b","c","d","e","f","g","h","i","j","k","l","m","n","o","p","q","r","s","t","u","v","w","x","y","z",
          "A","B","C","D","E","F","G","H","I","J","K","L","M","N","O","P","Q","R","S","T","U","V","W","X","Y","Z",
          "0","1","2","3","4","5","6","7","8","9"}

\* the replacement without the i flag: capital letters are replaced as well
SanitizeNameLowerOnly(s) ==
    [i \in 1..Len(s) |->
        IF s[i] \in {"a","b","c","d","e","f","g","h","i","j","k","l","m","n","o","p","q","r","s","t",
                     "u","v","w","x","y","z","0","1","2","3","4","5","6","7","8","9"}
        THEN s[i] ELSE "_"]

\* name.replace(/[^a-z0-9]/gi, '_')
SanitizeName(s) == [i \in 1..Len(s) |-> IF s[i] \in Alnum THEN s[i] ELSE "_"]

\* the sequences over S of length at most n
RECURSIVE SeqsUpTo(_, _)
SeqsUpTo(S, n) ==
    IF n = 0 THEN {<<>>}
    ELSE LET shorter == SeqsUpTo(S, n - 1)
         IN  shorter \cup {Append(s, x) : s \in {t \in shorter : Len(t) = n - 1}, x \in S}

(***************************************************************************)
(* CSV serializer                                                          *)
(***************************************************************************)
escapeCSVValueNoDoubling(value) ==
    IF Includes(value, Comma) \/ Includes(value, Quote) \/ Includes(value, NL)
    THEN <<Quote>> \o value \o <<Quote>>
    ELSE value

escapeCSVValue(value) ==
    IF Includes(value, Comma) \/ Includes(value, Quote) \/ Includes(value, NL)
    THEN <<Quote>> \o ReplaceQuotes(value) \o <<Quote>>
    ELSE value

\* row.map(escapeCSVValue).join(',')
CSVLine(row) == Join([i \in 1..Len(row) |-> escapeCSVValue(row[i])], <<Comma>>)

\* the lines array without the header line
CSVLinesNoHeader(tableData, options) ==
    [r \in 1..Len(tableData.rows) |->
        Join([i \in 1..Len(tableData.rows[r]) |->
                 IF Includes(tableData.rows[r][i], Comma) \/ Includes(tableData.rows[r][i], Quote)
                    \/ Includes(tableData.rows[r][i], NL)
                 THEN <<Quote>> \o ReplaceQuotes(tableData.rows[r][i]) \o <<Quote>>
                 ELSE tableData.rows[r][i]], <<Comma>>)]

\* the lines array of createCSVContent
CSVLines(tableData, options) ==
    (IF options.includeHeaders /\ Len(tableData.headers) > 0
     THEN <<CSVLine(tableData.headers)>> ELSE <<>>)
    \o [r \in 1..Len(tableData.rows) |-> CSVLine(tableData.rows[r])]

createCSVContent(tableData, options) == Join(CSVLines(tableData, options), <<NL>>)

\* text of the fixed template parts
TitleSuffix == <<" ", "-", " ", "Exported Data">>
GeneratedAt == <<"Generated: ", "<now>">>
TablesLabel == <<"Tables: ">>
CsvExt == <<".", "c", "s", "v">>

\* the metadata block prepended by exportToCSV
CSVMetadata(n, config) ==
    config.tabName \o TitleSuffix \o <<NL>>
    \o GeneratedAt \o <<NL>>
    \o TablesLabel \o NumToString(n) \o <<NL, NL>>

\* the sections written one after the other, with no empty line between them
RECURSIVE CSVSectionsNoSeparator(_, _, _)
CSVSectionsNoSeparator(tablesData, options, index) ==
    IF index > Len(tablesData) THEN <<>>
    ELSE tablesData[index].name \o <<NL>>
         \o createCSVContent(tablesData[index], options)
         \o <<NL>>
         \o CSVSectionsNoSeparator(tablesData, options, index + 1)

\* the body of the forEach of the single-file branch, accumulated over the tables
RECURSIVE CSVSections(_, _, _)
CSVSections(tablesData, options, index) ==
    IF index > Len(tablesData) THEN <<>>
    ELSE (IF index > 1 THEN <<NL>> ELSE <<>>)
         \o tablesData[index].name \o <<NL>>
         \o createCSVContent(tablesData[index], options)
         \o <<NL>>
         \o CSVSections(tablesData, options, index + 1)

\* exportToCSV: the downloads it triggers, in order.  throwAt = k > 0 makes the
\* handling of the k-th table throw before that table's text is complete.
exportToCSV(tablesData, config, throwAt) ==
    LET n == Len(tablesData)
        done == IF throwAt = 0 THEN n ELSE throwAt - 1
    IN  IF config.options.separateSheets /\ n > 1
        THEN [threw |-> throwAt # 0,
              downloads |->
                [k \in 1..done |->
                    [kind |-> "csv",
                     fileName |-> config.fileName \o <<"-">> \o SanitizeName(tablesData[k].name) \o CsvExt,
                     content |-> createCSVContent(tablesData[k], config.options)]]]
        ELSE [threw |-> throwAt # 0,
              downloads |->
                IF throwAt # 0 THEN <<>>
                ELSE <<[kind |-> "csv",
                        fileName |-> config.fileName \o CsvExt,
                        content |-> (IF config.options.includeMetadata
                                     THEN CSVMetadata(n, config) ELSE <<>>)
                                    \o CSVSections(tablesData, config.options, 1)]>>]

(***************************************************************************)
(* extractTableData: cell/row extraction                                   *)
(***************************************************************************)
Space == " "
Dollar == "$"
Euro == "<euro>"         \* the one character U+20AC
Pound == "<pound>"       \* the one character U+00A3
Backslash == "\\"
Whitespace == {Space, NL, "\t"}

\* String.prototype.trim
RECURSIVE TrimLeft(_)
TrimLeft(s) ==
    IF s # <<>> /\ Head(s) \in Whitespace THEN TrimLeft(Tail(s)) ELSE s

RECURSIVE TrimRight(_)
TrimRight(s) ==
    IF s # <<>> /\ s[Len(s)] \in Whitespace THEN TrimRight(SubSeq(s, 1, Len(s) - 1)) ELSE s

Trim(s) == TrimRight(TrimLeft(s))

HasCurrency(s) == Includes(s, Dollar) \/ Includes(s, Euro) \/ Includes(s, Pound)

\* innerHTML.match(/[\\$...]/): the class written in the source holds the
\* backslash besides the three currency symbols; the result is the first match
CurrencyClass == {Backslash, Dollar, Euro, Pound}

RECURSIVE FirstMatch(_, _)
FirstMatch(s, class) ==
    IF s = <<>> THEN <<>>
    ELSE IF Head(s) \in class THEN <<Head(s)>>
    ELSE FirstMatch(Tail(s), class)

\* the value pushed for one cell; a cell is [th, text, html]
CellValue(cell, options) ==
    LET text == Trim(cell.text)
    IN  IF options.preserveFormatting
           /\ HasCurrency(cell.html)
           /\ text # <<>>
           /\ ~HasCurrency(text)
           /\ FirstMatch(cell.html, CurrencyClass) # <<>>
        THEN FirstMatch(cell.html, CurrencyClass) \o text
        ELSE text

RowData(row, options) == [i \in 1..Len(row) |-> CellValue(row[i], options)]

\* row.querySelector('th')
RowHasTh(row) == \E i \in 1..Len(row) : row[i].th

\* row 0 becomes the header row only for its th cells
IsHeaderRowThOnly(rows, options) ==
    rows # <<>> /\ RowHasTh(rows[1])

\* row 0 becomes the header row
IsHeaderRow(rows, options) ==
    rows # <<>> /\ (RowHasTh(rows[1]) \/ options.includeHeaders)

\* the rows.forEach with the data rows numbered by their index among all rows
RECURSIVE ExtractRowsSourceIndex(_, _, _, _)
ExtractRowsSourceIndex(rows, options, index, extracted) ==
    IF index > Len(rows) THEN extracted
    ELSE IF index = 1 /\ IsHeaderRow(rows, options)
         THEN ExtractRowsSourceIndex(rows, options, index + 1, extracted)
         ELSE LET rowData == RowData(rows[index], options)
                  numbered == IF options.includeRowNumbers
                              THEN <<NumToString(index)>> \o rowData
                              ELSE rowData
              IN  ExtractRowsSourceIndex(rows, options, index + 1, Append(extracted, numbered))

\* the rows.forEach of extractTableData: extractedData after the rows from
\* index on, given the data rows pushed so far
RECURSIVE ExtractRows(_, _, _, _)
ExtractRows(rows, options, index, extracted) ==
    IF index > Len(rows) THEN extracted
    ELSE IF index = 1 /\ IsHeaderRow(rows, options)
         THEN ExtractRows(rows, options, index + 1, extracted)
         ELSE LET rowData == RowData(rows[index], options)
                  numbered == IF options.includeRowNumbers
                              THEN <<NumToString(Len(extracted) + 1)>> \o rowData
                              ELSE rowData
              IN  ExtractRows(rows, options, index + 1, Append(extracted, numbered))

\* the headers without the "#" of the row numbers
ExtractHeadersNoMark(rows, options) ==
    IF rows # <<>> /\ (RowHasTh(rows[1]) \/ options.includeHeaders)
    THEN [i \in 1..Len(rows[1]) |-> CellValue(rows[1][i], options)]
    ELSE <<>>

ExtractHeaders(rows, options) ==
    LET headers == IF IsHeaderRow(rows, options) THEN RowData(rows[1], options) ELSE <<>>
    IN  IF options.includeRowNumbers /\ Len(headers) > 0
        THEN <<<<"#">>>> \o headers
        ELSE headers

NoMetadata == [present |-> FALSE, originalRowCount |-> 0, originalColumnCount |-> 0]

\* the TableData returned by extractTableData (name filled in by the caller)
ExtractResult(rows, options) ==
    [name |-> <<>>,
     headers |-> ExtractHeaders(rows, options),
     rows |-> ExtractRows(rows, options, 1, <<>>),
     metadata |-> IF options.includeMetadata
                  THEN [present |-> TRUE,
                        originalRowCount |-> Len(rows),
                        originalColumnCount |-> Len(ExtractHeaders(rows, options))]
                  ELSE NoMetadata]

(***************************************************************************)
(* extractTableData: the scroll/overflow neutralizer                       *)
(* A table has inline width and max-width; its container, when it has one, *)
(* has an inline overflow and a scroll offset.  A container scrolls when   *)
(* its inline overflow clips, or when it has none and a class clips.       *)
(***************************************************************************)
Scrollable(cont) ==
    \/ cont.overflow \in {"hidden", "auto", "scroll"}
    \/ (cont.overflow = "" /\ cont.classScroll)

\* element.style.overflow = v: a box that stops scrolling loses its offset
SetOverflow(cont, v) ==
    LET c == [cont EXCEPT !.overflow = v]
    IN  IF Scrollable(c) THEN c ELSE [c EXCEPT !.scrollLeft = 0]

\* element.scrollLeft = v: ignored by a box that does not scroll
SetScrollLeft(cont, v) ==
    IF Scrollable(cont) THEN [cont EXCEPT !.scrollLeft = v] ELSE [cont EXCEPT !.scrollLeft = 0]

\* the statements of the try block that write, then the extraction and the
\* building of the result
TrySteps == 6
\* the assignments of the finally block
FinallySteps == 4

\* the try block up to the statement that throws (throwAt = 0: none does);
\* st is [tbl, cont, hasCont]
TryEffect(st, throwAt) ==
    LET upto == IF throwAt = 0 THEN TrySteps ELSE throwAt - 1
        c1 == IF st.hasCont /\ upto >= 1 THEN SetOverflow(st.cont, "visible") ELSE st.cont
        c2 == IF st.hasCont /\ upto >= 2 THEN SetScrollLeft(c1, 0) ELSE c1
        t3 == IF upto >= 3 THEN [st.tbl EXCEPT !.width = "max-content"] ELSE st.tbl
        t4 == IF upto >= 4 THEN [t3 EXCEPT !.maxWidth = "none"] ELSE t3
    IN  [st EXCEPT !.tbl = t4, !.cont = c2]

\* the finally block with the scroll offset written back before the overflow
FinallyEffectScrollFirst(st, orig, restoreThrowAt) ==
    LET upto == IF restoreThrowAt = 0 THEN FinallySteps ELSE restoreThrowAt - 1
        t1 == IF upto >= 1 THEN [st.tbl EXCEPT !.width = orig.width] ELSE st.tbl
        t2 == IF upto >= 2 THEN [t1 EXCEPT !.maxWidth = orig.maxWidth] ELSE t1
        c3 == IF st.hasCont /\ upto >= 3 THEN SetScrollLeft(st.cont, orig.scrollLeft) ELSE st.cont
        c4 == IF st.hasCont /\ upto >= 4 THEN SetOverflow(c3, orig.overflow) ELSE c3
    IN  [st EXCEPT !.tbl = t2, !.cont = c4]

\* the finally block: the four assignments in source order, up to the one that
\* throws (restoreThrowAt = 0: none does); orig holds the values recorded
\* before the try block
FinallyEffect(st, orig, restoreThrowAt) ==
    LET upto == IF restoreThrowAt = 0 THEN FinallySteps ELSE restoreThrowAt - 1
        t1 == IF upto >= 1 THEN [st.tbl EXCEPT !.width = orig.width] ELSE st.tbl
        t2 == IF upto >= 2 THEN [t1 EXCEPT !.maxWidth = orig.maxWidth] ELSE t1
        c3 == IF st.hasCont /\ upto >= 3 THEN SetOverflow(st.cont, orig.overflow) ELSE st.cont
        c4 == IF st.hasCont /\ upto >= 4 THEN SetScrollLeft(c3, orig.scrollLeft) ELSE c3
    IN  [st EXCEPT !.tbl = t2, !.cont = c4]

\* the values recorded before the try block
RecordOriginal(st) ==
    [scrollLeft |-> IF st.hasCont THEN st.cont.scrollLeft ELSE 0,
     width |-> st.tbl.width,
     maxWidth |-> st.tbl.maxWidth,
     overflow |-> IF st.hasCont THEN st.cont.overflow ELSE ""]

\* the styles after a call whose finally block restores nothing
NeutralizerEffectNoFinally(st, throwAt, restoreThrowAt) == TryEffect(st, throwAt)

\* the styles after one call of extractTableData
NeutralizerEffect(st, throwAt, restoreThrowAt) ==
    FinallyEffect(TryEffect(st, throwAt), RecordOriginal(st), restoreThrowAt)
(***************************************************************************)
(* PDF serializer: the page-break policy and the vertical cursor           *)
(***************************************************************************)
PageHeight == 210          \* landscape a4, in mm
PdfExt == <<".", "p", "d", "f">>

\* yPosition when the tables loop starts
PdfCursorStart(config) == IF config.options.includeMetadata THEN 20 + 15 + 8 + 15 ELSE 20 + 15

\* lastAutoTable.finalY as measured by the rendering library: a table that
\* ends shortly below its start, or one that ends low on a page
PdfFinalY(startY, tall) == IF tall THEN 180 ELSE startY + 10

\* the loop of exportToPDF with the page break on the cursor alone
RECURSIVE PdfTablesCursorOnly(_, _, _, _, _)
PdfTablesCursorOnly(tablesData, config, index, y, talls) ==
    IF index > Len(tablesData) THEN <<>>
    ELSE LET newPage == y > 210 - 60
             titleY == IF newPage THEN 20 ELSE y
             startY == titleY + 10
             next == (IF talls[index] THEN 180 ELSE startY + 10) + 15
         IN  <<[name |-> tablesData[index].name,
                newPage |-> newPage,
                titleY |-> titleY,
                startY |-> startY,
                head |-> IF config.options.includeHeaders /\ Len(tablesData[index].headers) > 0
                         THEN <<tablesData[index].headers>> ELSE <<>>,
                body |-> tablesData[index].rows,
                cursorAfter |-> next]>>
             \o PdfTablesCursorOnly(tablesData, config, index + 1, next, talls)

\* the tablesData.forEach of exportToPDF from table index on, with cursor y;
\* talls[i] tells how the library measures table i
RECURSIVE PdfTables(_, _, _, _, _)
PdfTables(tablesData, config, index, y, talls) ==
    IF index > Len(tablesData) THEN <<>>
    ELSE LET newPage == y > PageHeight - 60 \/ (index > 1 /\ config.options.separateSheets)
             titleY == IF newPage THEN 20 ELSE y
             startY == titleY + 10
             next == PdfFinalY(startY, talls[index]) + 15
         IN  <<[name |-> tablesData[index].name,
                newPage |-> newPage,
                titleY |-> titleY,
                startY |-> startY,
                head |-> IF config.options.includeHeaders /\ Len(tablesData[index].headers) > 0
                         THEN <<tablesData[index].headers>> ELSE <<>>,
                body |-> tablesData[index].rows,
                cursorAfter |-> next]>>
             \o PdfTables(tablesData, config, index + 1, next, talls)

\* exportToPDF: the one pdf.save at the end, unless handling table throwAt throws
exportToPDF(tablesData, config, throwAt, talls) ==
    [threw |-> throwAt # 0,
     downloads |->
        IF throwAt # 0 THEN <<>>
        ELSE <<[kind |-> "pdf",
                fileName |-> config.fileName \o PdfExt,
                content |-> PdfTables(tablesData, config, 1, PdfCursorStart(config), talls)]>>]

(***************************************************************************)
(* The document the exports run on: three tables                           *)
(*   1: inside a container that scrolls by class, scrolled to 40           *)
(*   2: inside a plain parent with inline overflow hidden, scrolled to 40  *)
(*   3: without any container, no rows                                     *)
(***************************************************************************)
Elems == 1..3
Conts == 1..2
NullElement == 0

ElemCont(e) == IF e = 3 THEN 0 ELSE e

TextCell(th, text) == [th |-> th, text |-> text, html |-> text]

ElemRows(e) ==
    CASE e = 1 -> << <<TextCell(TRUE, <<"N">>), TextCell(TRUE, <<"R">>)>>,
                     <<TextCell(FALSE, <<Space, "A", Space>>), TextCell(FALSE, <<"1", Comma, "2">>)>>,
                     <<TextCell(FALSE, <<"B">>), TextCell(FALSE, <<"8">>)>> >>
      [] e = 2 -> << <<TextCell(FALSE, <<"M">>),
                       [th |-> FALSE, text |-> <<"5">>, html |-> <<"<i c=", Dollar, ">", "5", "</i>">>]>> >>
      [] OTHER -> <<>>

ElemName(e) == <<"T", Space, DigitChar[e + 1]>>

InitTblStyle ==
    [e \in Elems |->
        CASE e = 1 -> [width |-> "", maxWidth |-> ""]
          [] e = 2 -> [width |-> "100%", maxWidth |-> "600px"]
          [] OTHER -> [width |-> "50%", maxWidth |-> ""]]

InitContStyle ==
    [c \in Conts |->
        IF c = 1 THEN [classScroll |-> TRUE, overflow |-> "", scrollLeft |-> 40]
        ELSE [classScroll |-> FALSE, overflow |-> "hidden", scrollLeft |-> 40]]

NoCont == [classScroll |-> FALSE, overflow |-> "", scrollLeft |-> 0]
(***************************************************************************)
(* exportDisplayedData                                                     *)
(***************************************************************************)
MaxTables == 2     \* most entries of config.tables

ExportFormats == {"pdf", "csv", "excel", "xlsx"}

ExportOptions ==
    [includeHeaders : BOOLEAN, preserveFormatting : BOOLEAN, includeRowNumbers : BOOLEAN,
     separateSheets : BOOLEAN, includeMetadata : BOOLEAN]

DisplayedTables == {[name |-> ElemName(e), element |-> e] : e \in Elems \cup {NullElement}}

ExportConfigs ==
    [format : ExportFormats, fileName : {<<"f">>}, tabName : {<<"S">>},
     options : ExportOptions, tables : SeqsUpTo(DisplayedTables, MaxTables)]

\* config.tables.filter(table => table.element)
LiveTables(tables) == SelectSeq(tables, LAMBDA t : t.element # NullElement)

\* the styles of one table and its container, as extractTableData sees them
StyleOf(tbl, cont, e) ==
    [tbl |-> tbl[e],
     hasCont |-> ElemCont(e) # 0,
     cont |-> IF ElemCont(e) # 0 THEN cont[ElemCont(e)] ELSE NoCont]

StartExport ==
    /\ epc = "idle"
    /\ isExporting' = TRUE
    /\ epc' = "extract"
    /\ eidx' = 1
    /\ UNCHANGED <<notExportVars, tblStyle, contStyle, ecfg, etables, downloads, eerror, restoreFault>>

\* one iteration of the map over the live tables: extractTableData on table eidx
ExtractNext ==
    /\ epc = "extract"
    /\ eidx <= Len(LiveTables(ecfg.tables))
    /\ \E throwAt \in 0..TrySteps, restoreThrowAt \in 0..FinallySteps :
         LET t == LiveTables(ecfg.tables)[eidx]
             e == t.element
             after == NeutralizerEffect(StyleOf(tblStyle, contStyle, e), throwAt, restoreThrowAt)
         IN  /\ tblStyle' = [tblStyle EXCEPT ![e] = after.tbl]
             /\ contStyle' = IF ElemCont(e) # 0
                             THEN [contStyle EXCEPT ![ElemCont(e)] = after.cont]
                             ELSE contStyle
             /\ restoreFault' = (restoreFault \/ restoreThrowAt # 0)
             /\ IF throwAt = 0 /\ restoreThrowAt = 0
                THEN /\ etables' = Append(etables,
                                            [ExtractResult(ElemRows(e), ecfg.options)
                                                EXCEPT !.name = t.name])
                     /\ eidx' = eidx + 1
                     /\ UNCHANGED <<epc, eerror>>
                ELSE /\ eerror' = IF restoreThrowAt # 0 THEN "restore" ELSE "extract"
                     /\ epc' = "catch"
                     /\ UNCHANGED <<etables, eidx>>
    /\ UNCHANGED <<notExportVars, ecfg, downloads, isExporting>>

\* the switch on the format without the empty check before it
DispatchNoEmptyCheck ==
    /\ epc = "extract"
    /\ eidx > Len(LiveTables(ecfg.tables))
    /\ IF ecfg.format = "pdf"
       THEN \E throwAt \in 0..Len(etables), talls \in [1..Len(etables) -> BOOLEAN] :
              LET r == exportToPDF(etables, ecfg, throwAt, talls)
              IN  /\ downloads' = downloads \o r.downloads
                  /\ eerror' = IF r.threw THEN "serialize" ELSE "none"
                  /\ epc' = IF r.threw THEN "catch" ELSE "finally"
       ELSE IF ecfg.format \in {"csv", "excel"}
       THEN \E throwAt \in 0..Len(etables) :
              LET r == exportToCSV(etables, ecfg, throwAt)
              IN  /\ downloads' = downloads \o r.downloads
                  /\ eerror' = IF r.threw THEN "serialize" ELSE "none"
                  /\ epc' = IF r.threw THEN "catch" ELSE "finally"
       ELSE /\ eerror' = "unsupported" /\ epc' = "catch" /\ UNCHANGED downloads
    /\ UNCHANGED <<notExportVars, tblStyle, contStyle, ecfg, etables, eidx, isExporting, restoreFault>>

\* the switch on the format with a default branch that exports as CSV
DispatchDefaultCsv ==
    /\ epc = "extract"
    /\ eidx > Len(LiveTables(ecfg.tables))
    /\ IF Len(etables) = 0
       THEN /\ eerror' = "empty" /\ epc' = "catch" /\ UNCHANGED downloads
       ELSE IF ecfg.format = "pdf"
       THEN \E throwAt \in 0..Len(etables), talls \in [1..Len(etables) -> BOOLEAN] :
              LET r == exportToPDF(etables, ecfg, throwAt, talls)
              IN  /\ downloads' = downloads \o r.downloads
                  /\ eerror' = IF r.threw THEN "serialize" ELSE "none"
                  /\ epc' = IF r.threw THEN "catch" ELSE "finally"
       ELSE \E throwAt \in 0..Len(etables) :
              LET r == exportToCSV(etables, ecfg, throwAt)
              IN  /\ downloads' = downloads \o r.downloads
                  /\ eerror' = IF r.threw THEN "serialize" ELSE "none"
                  /\ epc' = IF r.threw THEN "catch" ELSE "finally"
    /\ UNCHANGED <<notExportVars, tblStyle, contStyle, ecfg, etables, eidx, isExporting, restoreFault>>

\* the empty check and the switch on config.format
Dispatch ==
    /\ epc = "extract"
    /\ eidx > Len(LiveTables(ecfg.tables))
    /\ IF Len(etables) = 0
       THEN /\ eerror' = "empty" /\ epc' = "catch" /\ UNCHANGED downloads
       ELSE IF ecfg.format = "pdf"
       THEN \E throwAt \in 0..Len(etables), talls \in [1..Len(etables) -> BOOLEAN] :
              LET r == exportToPDF(etables, ecfg, throwAt, talls)
              IN  /\ downloads' = downloads \o r.downloads
                  /\ eerror' = IF r.threw THEN "serialize" ELSE "none"
                  /\ epc' = IF r.threw THEN "catch" ELSE "finally"
       ELSE IF ecfg.format \in {"csv", "excel"}
       THEN \E throwAt \in 0..Len(etables) :
              LET r == exportToCSV(etables, ecfg, throwAt)
              IN  /\ downloads' = downloads \o r.downloads
                  /\ eerror' = IF r.threw THEN "serialize" ELSE "none"
                  /\ epc' = IF r.threw THEN "catch" ELSE "finally"
       ELSE /\ eerror' = "unsupported" /\ epc' = "catch" /\ UNCHANGED downloads
    /\ UNCHANGED <<notExportVars, tblStyle, contStyle, ecfg, etables, eidx, isExporting, restoreFault>>

\* catch (error) { console.error(...); throw error; }
CatchExport ==
    /\ epc = "catch"
    /\ epc' = "finally"
    /\ UNCHANGED <<notExportVars, tblStyle, contStyle, ecfg, etables, eidx, downloads, isExporting,
                   eerror, restoreFault>>

\* the flag cleared only after an export that did not fail
FinallyExportOnSuccess ==
    /\ epc = "finally"
    /\ isExporting' = (eerror # "none")
    /\ epc' = IF eerror = "none" THEN "resolved" ELSE "rejected"
    /\ UNCHANGED <<notExportVars, tblStyle, contStyle, ecfg, etables, eidx, downloads, eerror, restoreFault>>

\* finally { setIsExporting(false); }, then the promise settles
FinallyExport ==
    /\ epc = "finally"
    /\ isExporting' = FALSE
    /\ epc' = IF eerror = "none" THEN "resolved" ELSE "rejected"
    /\ UNCHANGED <<notExportVars, tblStyle, contStyle, ecfg, etables, eidx, downloads, eerror, restoreFault>>

(***************************************************************************)
(* scanForTables: the name of a table                                      *)
(* A table has a caption or none, and preceding siblings, nearest first;   *)
(* a sibling is a heading (h1 to h6) or not, and has a text.               *)
(***************************************************************************)
TableWord == <<"T", "a", "b", "l", "e", Space>>
SearchLimit == 5
SnippetLimit == 100

StartsWith(s, p) == Len(s) >= Len(p) /\ SubSeq(s, 1, Len(p)) = p

\* 'Table ' + (index + 1)
DefaultName(index) == TableWord \o NumToString(index + 1)

\* the while loop over previousElementSibling from sibling k on; st is
\* [tableName, previousElements, searchCount]
RECURSIVE SiblingWalk(_, _, _)
SiblingWalk(sibs, k, st) ==
    IF k > Len(sibs) \/ st.searchCount >= SearchLimit THEN st
    ELSE LET text == Trim(sibs[k].text)
         IN  IF sibs[k].heading
             THEN [st EXCEPT !.tableName = IF text # <<>> THEN text ELSE st.tableName]
             ELSE SiblingWalk(sibs, k + 1,
                    [st EXCEPT !.previousElements =
                                  IF text # <<>> /\ Len(text) < SnippetLimit
                                  THEN Append(st.previousElements, text)
                                  ELSE st.previousElements,
                               !.searchCount = st.searchCount + 1])

\* tableName of scanForTables for the table at position index (from 0)
TableName(hasCaption, caption, sibs, index) ==
    IF hasCaption
    THEN (IF Trim(caption) # <<>> THEN Trim(caption) ELSE DefaultName(index))
    ELSE LET st == SiblingWalk(sibs, 1, [tableName |-> DefaultName(index),
                                         previousElements |-> <<>>, searchCount |-> 0])
         IN  IF StartsWith(st.tableName, TableWord) /\ Len(st.previousElements) > 0
             THEN st.previousElements[Len(st.previousElements)]
             ELSE st.tableName
(***************************************************************************)
(* The documents scanForTablesIncludingSubTabs runs on.  A document is a   *)
(* tree of tab groups: a group has triggers, the panel of a trigger holds  *)
(* tables and further groups.  The content of a panel is rendered only     *)
(* while its trigger is the active one of its group and the panel that     *)
(* holds the group is rendered (the Tabs of SalesAnimatedMetricCards).     *)
(* Triggers and tables are numbered in document order; panel 0 is the      *)
(* scan root.                                                              *)
(***************************************************************************)
RootPanel == 0

\*  root:   table 1, table 7 (display: none), group 1 = [A, B]
\*  A:      group 2 = [A1, A2];   A1: table 2;   A2: table 3
\*  B:      table 4, group 3 = [B1, B2];   B1: table 6 (no rows);   B2: table 5
NestedDoc ==
    [trigGroup   |-> <<1, 1, 2, 2, 3, 3>>,
     trigLabel   |-> <<"A", "B", "A1", "A2", "B1", "B2">>,
     trigButton  |-> <<TRUE, TRUE, TRUE, TRUE, TRUE, TRUE>>,
     groupParent |-> <<0, 1, 2>>,
     panelOrder  |-> <<1, 3, 4, 2, 5, 6>>,
     tblHome     |-> <<0, 3, 4, 2, 6, 5, 0>>,
     tblRows     |-> <<2, 2, 1, 3, 2, 0, 2>>,
     tblHidden   |-> <<FALSE, FALSE, FALSE, FALSE, FALSE, FALSE, TRUE>>]

\*  root:   group 1 = [P, Q, R] where R is an anchor, not a button;
\*          group 2 = [U, V];   P: table 1;   Q: table 2;   R: table 3;
\*          U: table 4;   V: no table
FlatDoc ==
    [trigGroup   |-> <<1, 1, 1, 2, 2>>,
     trigLabel   |-> <<"P", "Q", "R", "U", "V">>,
     trigButton  |-> <<TRUE, TRUE, FALSE, TRUE, TRUE>>,
     groupParent |-> <<0, 0>>,
     panelOrder  |-> <<1, 2, 3, 4, 5>>,
     tblHome     |-> <<1, 2, 3, 4>>,
     tblRows     |-> <<1, 1, 1, 1>>,
     tblHidden   |-> <<FALSE, FALSE, FALSE, FALSE>>]

\*  root:   group 1 = [A, B];   A: table 1
\*  B:      group 2 = [B1, B2];   B2: table 5
\*  B1:     table 2, group 3 = [X, Y];   X: table 3;   Y: table 4
DeepDoc ==
    [trigGroup   |-> <<1, 1, 2, 2, 3, 3>>,
     trigLabel   |-> <<"A", "B", "B1", "B2", "X", "Y">>,
     trigButton  |-> <<TRUE, TRUE, TRUE, TRUE, TRUE, TRUE>>,
     groupParent |-> <<0, 2, 3>>,
     panelOrder  |-> <<1, 2, 3, 5, 6, 4>>,
     tblHome     |-> <<1, 3, 5, 6, 4>>,
     tblRows     |-> <<1, 2, 1, 1, 1>>,
     tblHidden   |-> <<FALSE, FALSE, FALSE, FALSE, FALSE>>]

\*  a chain of 7 tab groups, group k = [Lk, Rk]: group 1 at the root, group
\*  k + 1 in the panel of Rk;   L1: table 1;   R3: table 2;   R7: table 3
ChainDoc ==
    [trigGroup   |-> <<1, 1, 2, 2, 3, 3, 4, 4, 5, 5, 6, 6, 7, 7>>,
     trigLabel   |-> <<"L1", "R1", "L2", "R2", "L3", "R3", "L4", "R4", "L5", "R5",
                       "L6", "R6", "L7", "R7">>,
     trigButton  |-> [t \in 1..14 |-> TRUE],
     groupParent |-> <<0, 2, 4, 6, 8, 10, 12>>,
     panelOrder  |-> [p \in 1..14 |-> p],
     tblHome     |-> <<1, 6, 14>>,
     tblRows     |-> <<1, 1, 1>>,
     tblHidden   |-> <<FALSE, FALSE, FALSE>>]

\*  root:   two tab groups with the same labels, group 1 = [O, D] and group
\*          2 = [O, D]; the panels of group 2 precede those of group 1 in the
\*          document;   D of group 2: table 1;   D of group 1: table 2
TwinDoc ==
    [trigGroup   |-> <<1, 1, 2, 2>>,
     trigLabel   |-> <<"O", "D", "O", "D">>,
     trigButton  |-> <<TRUE, TRUE, TRUE, TRUE>>,
     groupParent |-> <<0, 0>>,
     panelOrder  |-> <<3, 4, 1, 2>>,
     tblHome     |-> <<4, 2>>,
     tblRows     |-> <<1, 1>>,
     tblHidden   |-> <<FALSE, FALSE>>]

Docs == <<NestedDoc, FlatDoc, DeepDoc, ChainDoc, TwinDoc>>

Trigs(D) == 1..Len(D.trigGroup)
Groups(D) == 1..Len(D.groupParent)
Tables(D) == 1..Len(D.tblHome)

\* the panel that holds trigger t
ParentPanel(D, t) == D.groupParent[D.trigGroup[t]]

\* panel p is rendered inside the subtree of panel root (p = root included)
RECURSIVE ShownWithin(_, _, _, _)
ShownWithin(D, act, root, p) ==
    IF p = root THEN TRUE
    ELSE IF p = RootPanel THEN FALSE
    ELSE act[D.trigGroup[p]] = p /\ ShownWithin(D, act, root, ParentPanel(D, p))

\* p is rendered in the document
Rendered(D, act, p) == ShownWithin(D, act, RootPanel, p)

IdSeq(n) == [i \in 1..n |-> i]

\* searchRoot.querySelectorAll('[role="tab"]'), in document order
TabsUnder(D, act, root) ==
    SelectSeq(IdSeq(Len(D.trigGroup)), LAMBDA t : ShownWithin(D, act, root, ParentPanel(D, t)))

\* searchRoot.querySelectorAll('table'), in document order
TablesUnder(D, act, root) ==
    SelectSeq(IdSeq(Len(D.tblHome)), LAMBDA tb : ShownWithin(D, act, root, D.tblHome[tb]))

\* the trigger carries data-state="active" / aria-selected="true"
IsActive(D, act, t) == act[D.trigGroup[t]] = t

\* trigger.focus(); trigger.click(): a rendered trigger becomes the active one
\* of its group; a trigger that is no longer rendered receives no event
Click(D, act, t) ==
    IF Rendered(D, act, ParentPanel(D, t))
    THEN [act EXCEPT ![D.trigGroup[t]] = t]
    ELSE act

(***************************************************************************)
(* scanForTables and the helpers of scanForTablesIncludingSubTabs          *)
(***************************************************************************)
\* the test of the offset parent alone, without the computed style
IsVisibleIgnoringStyle(D, act, tb) == Rendered(D, act, D.tblHome[tb])

\* table.offsetParent !== null && display !== 'none' && visibility !== 'hidden'
IsVisible(D, act, tb) == Rendered(D, act, D.tblHome[tb]) /\ ~D.tblHidden[tb]

\* scanForTables with ids made of the index alone
scanForTablesNoTime(D, act, root) ==
    LET tables == SelectSeq([i \in 1..Len(D.tblHome) |-> i],
                            LAMBDA tb : ShownWithin(D, act, root, D.tblHome[tb]))
    IN  [k \in 1..Len(tables) |->
            [id |-> <<"table", k - 1>>,
             element |-> tables[k],
             index |-> k - 1,
             rowCount |-> D.tblRows[tables[k]],
             isVisible |-> ShownWithin(D, act, 0, D.tblHome[tables[k]]) /\ ~D.tblHidden[tables[k]]]]

\* scanForTables(searchRoot): one DisplayedTable per table, index 0-based
scanForTables(D, act, root) ==
    LET tables == TablesUnder(D, act, root)
    IN  [k \in 1..Len(tables) |->
            [id |-> <<"table", k - 1, now>>,
             element |-> tables[k],
             index |-> k - 1,
             rowCount |-> D.tblRows[tables[k]],
             isVisible |-> IsVisible(D, act, tables[k])]]

\* the forEach of collectVisible over found from position k on; st is
\* [collected, seen]
RECURSIVE CollectFound(_, _, _, _)
CollectFound(found, prefix, k, st) ==
    IF k > Len(found) THEN st
    ELSE IF found[k].element \notin st.seen
         THEN CollectFound(found, prefix, k + 1,
                [collected |-> Append(st.collected,
                                  [id |-> Append(found[k].id, IF prefix # <<>> THEN prefix ELSE <<"active">>),
                                   element |-> found[k].element,
                                   prefix |-> prefix,
                                   index |-> found[k].index,
                                   rowCount |-> found[k].rowCount,
                                   isVisible |-> TRUE]),
                 seen |-> st.seen \cup {found[k].element}])
         ELSE CollectFound(found, prefix, k + 1, st)

\* collectVisible without the check against seen
collectVisibleNoSeen(D, act, prefix, searchRoot, st) ==
    LET found == SelectSeq(scanForTables(D, act, searchRoot),
                           LAMBDA t : t.isVisible /\ t.rowCount > 0)
    IN  [collected |-> st.collected \o
                         [k \in 1..Len(found) |->
                            [id |-> Append(found[k].id, IF prefix # <<>> THEN prefix ELSE <<"active">>),
                             element |-> found[k].element, prefix |-> prefix,
                             index |-> found[k].index, rowCount |-> found[k].rowCount,
                             isVisible |-> TRUE]],
         seen |-> st.seen \cup {found[k].element : k \in 1..Len(found)}]

\* collectVisible(prefix, searchContext)
collectVisible(D, act, prefix, searchRoot, st) ==
    LET found == SelectSeq(scanForTables(D, act, searchRoot),
                           LAMBDA t : t.isVisible /\ t.rowCount > 0)
    IN  CollectFound(found, prefix, 1, st)

\* getAllActiveTriggers(): the rendered triggers marked active, in document order
getAllActiveTriggers(D, act) ==
    SelectSeq(TabsUnder(D, act, RootPanel), LAMBDA t : IsActive(D, act, t))

\* the triggers list of processTabLevel: rendered buttons that are not active
InactiveTriggers(D, act, root) ==
    SelectSeq(TabsUnder(D, act, root), LAMBDA t : D.trigButton[t] /\ ~IsActive(D, act, t))

\* querySelectorAll('[role="tabpanel"][data-state="active"], ...') under the
\* root: the rendered panels, in document order
ActivePanels(D, act) ==
    SelectSeq(D.panelOrder, LAMBDA p : Rendered(D, act, p))

\* the panel found from a trigger: closest tablist, its parent, the first
\* active tabpanel in it (0 when the group has no active trigger)
ActiveTabContent(D, act, t) == act[D.trigGroup[t]]

MaxLevel == 5

\* processTabLevel without the check of the level
EnterLevelNoCap(D, act, stk, root, prefix, level, kind) ==
    Append(stk, [root |-> root, prefix |-> prefix, level |-> level, kind |-> kind,
                 triggers |-> InactiveTriggers(D, act, root), i |-> 1,
                 phase |-> "click"])

\* processTabLevel(searchRoot, levelPrefix, level) up to its loop: past the cap
\* it returns at once, otherwise its frame is entered
EnterLevel(D, act, stk, root, prefix, level, kind) ==
    IF level > MaxLevel THEN stk
    ELSE Append(stk, [root |-> root, prefix |-> prefix, level |-> level, kind |-> kind,
                      triggers |-> InactiveTriggers(D, act, root), i |-> 1,
                      phase |-> "click"])
(***************************************************************************)
(* scanForTablesIncludingSubTabs as steps.  A processTabLevel call is a    *)
(* frame of stack; a loop iteration is the click (up to the first wait)    *)
(* and then the collection and the recursive call (after the second wait). *)
(***************************************************************************)
Doc == Docs[docId]
Top == stack[Len(stack)]
Pop(stk) == SubSeq(stk, 1, Len(stk) - 1)
SetTop(stk, f) == [stk EXCEPT ![Len(stk)] = f]
AtTrigger == stack # <<>> /\ Top.i <= Len(Top.triggers)
Trigger == Top.triggers[Top.i]

\* subTabName and fullTabName of the current iteration, as the list of labels
\* that " > " joins
FullTabName == Top.prefix \o <<Doc.trigLabel[Trigger]>>

\* the call: the snapshot, the first collection, and the call of
\* processTabLevel(root) up to the first trigger
StartScan ==
    /\ spc = "idle"
    /\ LET st == collectVisible(Doc, active, <<"Initial Active Content">>, RootPanel,
                                [collected |-> <<>>, seen |-> {}])
       IN  /\ snapshot' = getAllActiveTriggers(Doc, active)
           /\ collected' = st.collected
           /\ seen' = st.seen
    /\ stack' = EnterLevel(Doc, active, <<>>, RootPanel, <<>>, 0, "root")
    /\ spc' = "walk"
    /\ UNCHANGED <<notScanVars, now, activateFailed, docId, active, panels, pidx, ridx, faults, attempted, restored,
                   restoreFailed, activatedAny, unprotected>>

\* the click of the try block followed at once by the next iteration
ActivateNoSettle ==
    /\ spc \in {"walk", "panels"} /\ AtTrigger /\ Top.phase = "click"
    /\ active' = Click(Doc, active, Trigger)
    /\ stack' = SetTop(stack, [Top EXCEPT !.i = Top.i + 1])
    /\ attempted' = attempted \cup {Trigger}
    /\ activatedAny' = TRUE
    /\ UNCHANGED <<notScanVars, now, activateFailed, docId, spc, collected, seen, snapshot, panels, pidx,
                   ridx, faults, restored, restoreFailed, unprotected>>

\* scrollIntoView, focus, click of the try block, then the wait
Activate ==
    /\ spc \in {"walk", "panels"} /\ AtTrigger /\ Top.phase = "click"
    /\ active' = Click(Doc, active, Trigger)
    /\ stack' = SetTop(stack, [Top EXCEPT !.phase = "settled"])
    /\ attempted' = attempted \cup {Trigger}
    /\ activatedAny' = TRUE
    /\ now' = now + 1
    /\ UNCHANGED <<notScanVars, activateFailed, docId, spc, collected, seen, snapshot, panels, pidx, ridx, faults,
                   restored, restoreFailed, unprotected>>

\* the activation throws with the sub-tab switch rethrown instead of logged
ActivateThrowsRethrown ==
    /\ spc \in {"walk", "panels"} /\ AtTrigger /\ Top.phase = "click"
    /\ faults < MaxFaults
    /\ faults' = faults + 1
    /\ attempted' = attempted \cup {Trigger}
    /\ activateFailed' = activateFailed \cup {Trigger}
    /\ stack' = <<>>
    /\ spc' = "rejected"
    /\ UNCHANGED <<notScanVars, now, docId, active, collected, seen, snapshot, panels, pidx, ridx,
                   restored, restoreFailed, activatedAny, unprotected>>

\* the activation throws: the catch of the iteration logs it and the loop goes
\* on with the next trigger
ActivateThrows ==
    /\ spc \in {"walk", "panels"} /\ AtTrigger /\ Top.phase = "click"
    /\ faults < MaxFaults
    /\ faults' = faults + 1
    /\ attempted' = attempted \cup {Trigger}
    /\ activateFailed' = activateFailed \cup {Trigger}
    /\ stack' = SetTop(stack, [Top EXCEPT !.i = Top.i + 1])
    /\ UNCHANGED <<notScanVars, now, docId, active, spc, collected, seen, snapshot, panels, pidx, ridx,
                   restored, restoreFailed, activatedAny, unprotected>>

\* after the waits: collectVisible(fullTabName, searchRoot), then the recursive
\* call on the active panel of the trigger's group, up to its first trigger
CollectAndDescend ==
    /\ spc \in {"walk", "panels"} /\ AtTrigger /\ Top.phase = "settled"
    /\ LET st == collectVisible(Doc, active, FullTabName, Top.root,
                                [collected |-> collected, seen |-> seen])
           content == ActiveTabContent(Doc, active, Trigger)
           next == SetTop(stack, [Top EXCEPT !.i = Top.i + 1, !.phase = "click"])
       IN  /\ collected' = st.collected
           /\ seen' = st.seen
           /\ stack' = IF content # 0
                       THEN EnterLevel(Doc, active, next, content, FullTabName,
                                       Top.level + 1, "nested")
                       ELSE next
    /\ UNCHANGED <<notScanVars, now, activateFailed, docId, active, spc, snapshot, panels, pidx, ridx, faults,
                   attempted, restored, restoreFailed, activatedAny, unprotected>>

\* the loop of a recursive call is over: back in the caller's iteration
ReturnNested ==
    /\ spc \in {"walk", "panels"} /\ stack # <<>> /\ ~AtTrigger
    /\ Top.kind = "nested"
    /\ stack' = Pop(stack)
    /\ UNCHANGED <<notScanVars, now, activateFailed, docId, active, spc, collected, seen, snapshot, panels, pidx, ridx,
                   faults, attempted, restored, restoreFailed, activatedAny, unprotected>>

\* an exception in a recursive call outside its own try (the name of the next
\* trigger): it ends the call and is caught by the caller's iteration
NestedThrows ==
    /\ spc \in {"walk", "panels"} /\ AtTrigger /\ Top.phase = "click"
    /\ Top.kind = "nested"
    /\ faults < MaxFaults
    /\ faults' = faults + 1
    /\ stack' = Pop(stack)
    /\ UNCHANGED <<notScanVars, now, activateFailed, docId, active, spc, collected, seen, snapshot, panels, pidx, ridx,
                   attempted, restored, restoreFailed, activatedAny, unprotected>>

\* processTabLevel(root) is over: the query for the active panels
StartPanels ==
    /\ spc = "walk" /\ stack = <<>>
    /\ panels' = ActivePanels(Doc, active)
    /\ pidx' = 1
    /\ spc' = "panels"
    /\ UNCHANGED <<notScanVars, now, activateFailed, docId, active, stack, collected, seen, snapshot, ridx, faults,
                   attempted, restored, restoreFailed, activatedAny, unprotected>>

\* one iteration of the loop over activeTabContents, up to the first trigger
NextPanel ==
    /\ spc = "panels" /\ stack = <<>> /\ pidx <= Len(panels)
    /\ stack' = EnterLevel(Doc, active, <<>>, panels[pidx], <<"Active Tab Content">>, 1, "panel")
    /\ pidx' = pidx + 1
    /\ UNCHANGED <<notScanVars, now, activateFailed, docId, active, spc, collected, seen, snapshot, panels, ridx,
                   faults, attempted, restored, restoreFailed, activatedAny, unprotected>>

\* the loop of a call made by the scan itself is over
ReturnTop ==
    /\ spc = "panels" /\ stack # <<>> /\ ~AtTrigger
    /\ Top.kind = "panel"
    /\ stack' = <<>>
    /\ UNCHANGED <<notScanVars, now, activateFailed, docId, active, spc, collected, seen, snapshot, panels, pidx, ridx,
                   faults, attempted, restored, restoreFailed, activatedAny, unprotected>>

\* processTabLevel(root) returns
ReturnRoot ==
    /\ spc = "walk" /\ stack # <<>> /\ ~AtTrigger
    /\ Top.kind = "root"
    /\ stack' = <<>>
    /\ UNCHANGED <<notScanVars, now, activateFailed, docId, active, spc, collected, seen, snapshot, panels, pidx, ridx,
                   faults, attempted, restored, restoreFailed, activatedAny, unprotected>>

\* an exception outside every try block, in a call made by the scan itself
\* (the name of the next trigger): the promise of the scan rejects
UnprotectedThrow ==
    /\ spc \in {"walk", "panels"} /\ AtTrigger /\ Top.phase = "click"
    /\ Top.kind \in {"root", "panel"}
    /\ faults < MaxFaults
    /\ faults' = faults + 1
    /\ unprotected' = TRUE
    /\ stack' = <<>>
    /\ spc' = "rejected"
    /\ UNCHANGED <<notScanVars, now, activateFailed, docId, active, collected, seen, snapshot, panels, pidx, ridx,
                   attempted, restored, restoreFailed, activatedAny>>

\* the loop over activeTabContents is over: the restore loop starts at the
\* last entry of initialActiveTriggers
StartRestore ==
    /\ spc = "panels" /\ stack = <<>> /\ pidx > Len(panels)
    /\ ridx' = Len(snapshot)
    /\ spc' = "restore"
    /\ UNCHANGED <<notScanVars, now, activateFailed, docId, active, stack, collected, seen, snapshot, panels, pidx,
                   faults, attempted, restored, restoreFailed, activatedAny, unprotected>>

\* one iteration of the restore loop
RestoreNext ==
    /\ spc = "restore" /\ ridx >= 1
    /\ active' = Click(Doc, active, snapshot[ridx])
    /\ restored' = Append(restored, snapshot[ridx])
    /\ ridx' = ridx - 1
    /\ now' = now + 1
    /\ UNCHANGED <<notScanVars, activateFailed, docId, spc, stack, collected, seen, snapshot, panels, pidx, faults,
                   attempted, restoreFailed, activatedAny, unprotected>>

\* one iteration of the restore loop whose click throws: logged, the loop goes on
RestoreThrows ==
    /\ spc = "restore" /\ ridx >= 1
    /\ faults < MaxFaults
    /\ faults' = faults + 1
    /\ restored' = Append(restored, snapshot[ridx])
    /\ restoreFailed' = restoreFailed \cup {snapshot[ridx]}
    /\ ridx' = ridx - 1
    /\ UNCHANGED <<notScanVars, now, activateFailed, docId, active, spc, stack, collected, seen, snapshot, panels, pidx,
                   attempted, activatedAny, unprotected>>

\* the restore loop is over: the last wait of the scan
FinalWait ==
    /\ spc = "restore" /\ ridx = 0
    /\ spc' = "final"
    /\ now' = now + 1
    /\ UNCHANGED <<notScanVars, activateFailed, docId, active, stack, collected, seen, snapshot, panels,
                   pidx, ridx, faults, attempted, restored, restoreFailed, activatedAny, unprotected>>

\* collectVisible('Final Restored State') and the return
FinalCollect ==
    /\ spc = "final"
    /\ LET st == collectVisible(Doc, active, <<"Final Restored State">>, RootPanel,
                                [collected |-> collected, seen |-> seen])
       IN  /\ collected' = st.collected
           /\ seen' = st.seen
    /\ spc' = "resolved"
    /\ UNCHANGED <<notScanVars, now, activateFailed, docId, active, stack, snapshot, panels, pidx, ridx, faults,
                   attempted, restored, restoreFailed, activatedAny, unprotected>>
(***************************************************************************)
(* Each specification runs one part of the pipeline; the variables of the  *)
(* other parts stay at these values.                                       *)
(***************************************************************************)
EscOff == escIn = <<>> /\ escOut = <<>> /\ escPc = "off"

CsvOff == csvTables = <<>> /\ csvCfg = <<>> /\ csvOut = <<>> /\ csvPc = "off"

ExportOff ==
    /\ tblStyle = <<>> /\ contStyle = <<>> /\ ecfg = <<>> /\ epc = "off" /\ eidx = 0
    /\ etables = <<>> /\ downloads = <<>> /\ isExporting = FALSE /\ eerror = "none"
    /\ restoreFault = FALSE

ScanOff ==
    /\ docId = 0 /\ active = <<>> /\ spc = "off" /\ stack = <<>> /\ collected = <<>>
    /\ seen = {} /\ snapshot = <<>> /\ panels = <<>> /\ pidx = 0 /\ ridx = 0 /\ faults = 0
    /\ attempted = {} /\ restored = <<>> /\ activateFailed = {} /\ restoreFailed = {} /\ activatedAny = FALSE
    /\ unprotected = FALSE /\ now = 0

ExtractOff == exRows = <<>> /\ exOpts = <<>> /\ exOut = <<>> /\ exPc = "off" /\ exCsv = <<>>

NameOff == nmCaption = 0 /\ nmSibs = <<>> /\ nmIndex = 0 /\ nmOut = <<>> /\ nmPc = "off"


CtlOff == hPc = <<>> /\ hLeft = <<>> /\ hLog = <<>> /\ displayedExporting = FALSE
(***************************************************************************)
(* Specification SpecEscape: escapeCSVValue on every field up to MaxLen    *)
(***************************************************************************)
InitEscape ==
    /\ escIn \in StringsUpTo(MaxLen)
    /\ escOut = <<>>
    /\ escPc = "ready"
    /\ CsvOff /\ ExportOff /\ ScanOff /\ ExtractOff /\ NameOff /\ CtlOff

Escape ==
    /\ escPc = "ready"
    /\ escOut' = escapeCSVValue(escIn)
    /\ escPc' = "done"
    /\ UNCHANGED <<escIn, notEscVars>>

NextEscape == Escape

SpecEscape == InitEscape /\ [][NextEscape]_vars

(***************************************************************************)
(* Specification SpecCSV: exportToCSV on bounded lists of TableData        *)
(***************************************************************************)
CsvHeaderPool == {<<>>, <<<<"N">>>>, <<<<"N">>, <<"R", Comma>>>>}
CsvRowPool == {<<<<"a">>>>, <<<<"1", Comma, "2">>, <<"q", Quote>>>>}

CsvTableName(k) == <<"T", " ", DigitChar[k + 1]>>

CsvTableDataSet(k) ==
    [name : {CsvTableName(k)}, headers : CsvHeaderPool, rows : SeqsUpTo(CsvRowPool, MaxRows)]

CsvConfigs ==
    [fileName : {<<"f">>}, tabName : {<<"S">>},
     options : [includeHeaders : BOOLEAN, separateSheets : BOOLEAN, includeMetadata : BOOLEAN]]

InitCSV ==
    /\ csvTables \in {<<a>> : a \in CsvTableDataSet(1)}
                    \cup {<<a, b>> : a \in CsvTableDataSet(1), b \in CsvTableDataSet(2)}
    /\ csvCfg \in CsvConfigs
    /\ csvOut = [threw |-> FALSE, downloads |-> <<>>]
    /\ csvPc = "ready"
    /\ EscOff /\ ExportOff /\ ScanOff /\ ExtractOff /\ NameOff /\ CtlOff

ExportCSV ==
    /\ csvPc = "ready"
    /\ \E throwAt \in 0..Len(csvTables) :
          csvOut' = exportToCSV(csvTables, csvCfg, throwAt)
    /\ csvPc' = "done"
    /\ UNCHANGED <<csvTables, csvCfg, notCsvVars>>

NextCSV == ExportCSV

SpecCSV == InitCSV /\ [][NextCSV]_vars

(***************************************************************************)
(* Specification SpecExport: one call of exportDisplayedData               *)
(***************************************************************************)
InitExport ==
    /\ tblStyle = InitTblStyle
    /\ contStyle = InitContStyle
    /\ ecfg \in ExportConfigs
    /\ epc = "idle"
    /\ eidx = 0
    /\ etables = <<>>
    /\ downloads = <<>>
    /\ isExporting = FALSE
    /\ eerror = "none"
    /\ restoreFault = FALSE
    /\ EscOff /\ CsvOff /\ ScanOff /\ ExtractOff /\ NameOff /\ CtlOff

NextExport ==
    \/ StartExport
    \/ ExtractNext
    \/ Dispatch
    \/ CatchExport
    \/ FinallyExport

SpecExport == InitExport /\ [][NextExport]_vars


(***************************************************************************)
(* Specification of one scan of a document                                 *)
(***************************************************************************)
\* the active trigger of every group before the scan: one of the group
\* (or none, for a group of the scan root)
InitialActive(D) ==
    {act \in [Groups(D) -> {0} \cup Trigs(D)] :
        \A g \in Groups(D) :
            \/ (act[g] \in Trigs(D) /\ D.trigGroup[act[g]] = g)
            \/ (act[g] = 0 /\ D.groupParent[g] = RootPanel)}

InitScan ==
    /\ EscOff /\ CsvOff /\ ExportOff /\ ExtractOff /\ NameOff /\ CtlOff
    /\ docId \in {d \in DOMAIN Docs : Docs[d] # ChainDoc}
    /\ active \in InitialActive(Docs[docId])
    /\ spc = "idle" /\ stack = <<>> /\ collected = <<>> /\ seen = {} /\ snapshot = <<>>
    /\ panels = <<>> /\ pidx = 0 /\ ridx = 0 /\ faults = 0 /\ attempted = {}
    /\ restored = <<>> /\ activateFailed = {} /\ restoreFailed = {} /\ activatedAny = FALSE /\ unprotected = FALSE /\ now = 0

NextScan ==
    \/ StartScan
    \/ Activate
    \/ ActivateThrows
    \/ CollectAndDescend
    \/ ReturnNested
    \/ NestedThrows
    \/ ReturnRoot
    \/ StartPanels
    \/ NextPanel
    \/ ReturnTop
    \/ UnprotectedThrow
    \/ StartRestore
    \/ RestoreNext
    \/ RestoreThrows
    \/ FinalWait
    \/ FinalCollect

SpecScan == InitScan /\ [][NextScan]_vars

(***************************************************************************)
(* Specification SpecExtract: the extraction of extractTableData on every  *)
(* table of up to MaxTrs rows                                              *)
(***************************************************************************)
\* the rows a table is made of: without cells, header cells, data cells,
\* padded text, a currency symbol held by the markup only, a backslash in
\* the text ahead of a currency symbol held by the markup
TrPool ==
    {<<>>,
     <<TextCell(TRUE, <<"h">>)>>,
     <<TextCell(FALSE, <<"a">>)>>,
     <<TextCell(FALSE, <<"a">>), TextCell(FALSE, <<Space, "b", Space>>)>>,
     <<TextCell(TRUE, <<"h">>), TextCell(FALSE, <<"b">>)>>,
     <<[th |-> FALSE, text |-> <<"1">>, html |-> <<"<span>", Dollar, "</span>", "1">>]>>,
     <<[th |-> FALSE, text |-> <<"5", Backslash, "6">>,
        html |-> <<"5", Backslash, "6", "<i data-unit=", Quote, Dollar, Quote, "></i>">>]>>}

ExtractOptions ==
    [includeHeaders : BOOLEAN, preserveFormatting : BOOLEAN, includeRowNumbers : BOOLEAN,
     separateSheets : {FALSE}, includeMetadata : BOOLEAN]

InitExtract ==
    /\ exRows \in SeqsUpTo(TrPool, MaxTrs)
    /\ exOpts \in ExtractOptions
    /\ exOut = <<>>
    /\ exCsv = <<>>
    /\ exPc = "ready"
    /\ EscOff /\ CsvOff /\ ExportOff /\ ScanOff /\ NameOff /\ CtlOff

Extract ==
    /\ exPc = "ready"
    /\ exOut' = ExtractResult(exRows, exOpts)
    /\ exPc' = "done"
    /\ UNCHANGED <<exRows, exOpts, exCsv, notExtractVars>>

\* createCSVContent(tableData, config.options) on the extracted TableData
Serialize ==
    /\ exPc = "done"
    /\ exCsv' = createCSVContent(exOut, exOpts)
    /\ exPc' = "serialized"
    /\ UNCHANGED <<exRows, exOpts, exOut, notExtractVars>>

NextExtract == Extract \/ Serialize

SpecExtract == InitExtract /\ [][NextExtract]_vars

(***************************************************************************)
(* Specification SpecName: the naming of scanForTables on every table with *)
(* up to one sibling more than the loop examines                           *)
(***************************************************************************)
LongText == [i \in 1..SnippetLimit |-> "x"]

CaptionPool == <<<<"C", "a", "p">>, <<Space>>>>

SiblingPool ==
    <<[heading |-> TRUE, text |-> <<"R", "e", "v">>],
      [heading |-> TRUE, text |-> TableWord \o <<"A">>],
      [heading |-> TRUE, text |-> <<Space>>],
      [heading |-> FALSE, text |-> <<"a">>],
      [heading |-> FALSE, text |-> <<Space, "b", NL>>],
      [heading |-> FALSE, text |-> LongText],
      [heading |-> FALSE, text |-> <<>>]>>

\* the siblings of the table under naming, nearest first
Siblings == [k \in 1..Len(nmSibs) |-> SiblingPool[nmSibs[k]]]

InitName ==
    /\ nmCaption \in 0..Len(CaptionPool)
    /\ nmSibs \in SeqsUpTo(DOMAIN SiblingPool, IF nmCaption = 0 THEN SearchLimit + 1 ELSE 1)
    /\ nmIndex \in {0, 1}
    /\ nmOut = <<>>
    /\ nmPc = "ready"
    /\ EscOff /\ CsvOff /\ ExportOff /\ ScanOff /\ ExtractOff /\ CtlOff

NameTable ==
    /\ nmPc = "ready"
    /\ nmOut' = TableName(nmCaption # 0,
                          IF nmCaption # 0 THEN CaptionPool[nmCaption] ELSE <<>>,
                          Siblings, nmIndex)
    /\ nmPc' = "done"
    /\ UNCHANGED <<nmCaption, nmSibs, nmIndex, notNameVars>>

NextName == NameTable

SpecName == InitName /\ [][NextName]_vars

(***************************************************************************)
(* Specification of one scan of the chain document, whose nesting is       *)
(* deeper than the cap of processTabLevel.  Every click and every timer    *)
(* completes, so a run that can take a step takes one.                     *)
(***************************************************************************)
\* before the scan every group shows its first tab, or every group its second
ChainActive ==
    {[g \in Groups(ChainDoc) |-> 2 * g - 1], [g \in Groups(ChainDoc) |-> 2 * g]}

InitCapScan ==
    /\ EscOff /\ CsvOff /\ ExportOff /\ ExtractOff /\ NameOff /\ CtlOff
    /\ docId \in {d \in DOMAIN Docs : Docs[d] = ChainDoc}
    /\ active \in ChainActive
    /\ spc = "idle" /\ stack = <<>> /\ collected = <<>> /\ seen = {} /\ snapshot = <<>>
    /\ panels = <<>> /\ pidx = 0 /\ ridx = 0 /\ faults = 0 /\ attempted = {}
    /\ restored = <<>> /\ activateFailed = {} /\ restoreFailed = {} /\ activatedAny = FALSE /\ unprotected = FALSE /\ now = 0

SpecCapScan == InitCapScan /\ [][NextScan]_vars /\ WF_vars(NextScan)

(***************************************************************************)
(* Specification SpecControls: the Export CSV and Export PDF buttons of    *)
(* TableExportControls.  A click starts handleAdvancedExport, which awaits *)
(* the tab walk (one task per activation) and then runs                    *)
(* exportDisplayedData, which has no await.  The buttons are disabled      *)
(* while isExporting is set; no legacy export is in progress.              *)
(***************************************************************************)
Calls == 1..MaxCalls

\* a task is running: no click reaches a button before it ends
InTask == \E i \in Calls : hPc[i] = "export"

InitControls ==
    /\ hPc = [i \in Calls |-> "idle"]
    /\ hLeft = [i \in Calls |-> 0]
    /\ hLog = <<>>
    /\ displayedExporting = FALSE
    /\ EscOff /\ CsvOff /\ ExportOff /\ ScanOff /\ ExtractOff /\ NameOff

\* onClick of an export button that is not disabled: handleAdvancedExport up
\* to the await of scanForTablesIncludingSubTabs
ClickExport ==
    /\ ~InTask
    /\ ~displayedExporting
    /\ \E i \in Calls, n \in 1..MaxWalk :
          /\ hPc[i] = "idle"
          /\ \A j \in Calls : j < i => hPc[j] # "idle"
          /\ hPc' = [hPc EXCEPT ![i] = "scan"]
          /\ hLeft' = [hLeft EXCEPT ![i] = n]
    /\ UNCHANGED <<hLog, displayedExporting, notCtlVars>>

\* one activation of a tab walk: the click of processTabLevel, up to the wait
WalkClick ==
    /\ ~InTask
    /\ \E i \in Calls :
          /\ hPc[i] = "scan" /\ hLeft[i] > 0
          /\ hLeft' = [hLeft EXCEPT ![i] = hLeft[i] - 1]
          /\ hLog' = Append(hLog, i)
    /\ UNCHANGED <<hPc, displayedExporting, notCtlVars>>

\* the walk has resolved without tables: the handler returns
NoTables ==
    /\ ~InTask
    /\ \E i \in Calls :
          /\ hPc[i] = "scan" /\ hLeft[i] = 0
          /\ hPc' = [hPc EXCEPT ![i] = "returned"]
    /\ UNCHANGED <<hLeft, hLog, displayedExporting, notCtlVars>>

\* the walk has resolved with tables: exportDisplayedData sets the flag
ExportBegin ==
    /\ ~InTask
    /\ \E i \in Calls :
          /\ hPc[i] = "scan" /\ hLeft[i] = 0
          /\ hPc' = [hPc EXCEPT ![i] = "export"]
    /\ displayedExporting' = TRUE
    /\ UNCHANGED <<hLeft, hLog, notCtlVars>>

\* the finally block of exportDisplayedData, in the same task
ExportEnd ==
    /\ \E i \in Calls :
          /\ hPc[i] = "export"
          /\ hPc' = [hPc EXCEPT ![i] = "done"]
    /\ displayedExporting' = FALSE
    /\ UNCHANGED <<hLeft, hLog, notCtlVars>>

NextControls ==
    \/ ClickExport
    \/ WalkClick
    \/ NoTables
    \/ ExportBegin
    \/ ExportEnd

SpecControls == InitControls /\ [][NextControls]_vars
\* the standard CSV reading of one field: a field that opens with a quote is
\* stripped of its outer quotes and every doubled quote inside stands for one
RECURSIVE CollapseQuotes(_)
CollapseQuotes(s) ==
    IF s = <<>> THEN <<>>
    ELSE IF Len(s) >= 2 /\ s[1] = Quote /\ s[2] = Quote
         THEN <<Quote>> \o CollapseQuotes(SubSeq(s, 3, Len(s)))
         ELSE <<Head(s)>> \o CollapseQuotes(Tail(s))

UnescapeCSV(f) ==
    IF Len(f) >= 2 /\ f[1] = Quote /\ f[Len(f)] = Quote
    THEN CollapseQuotes(SubSeq(f, 2, Len(f) - 1))
    ELSE f

CountChar(s, c) == Cardinality({i \in 1..Len(s) : s[i] = c})

IsSpecial(s) == Includes(s, Comma) \/ Includes(s, Quote) \/ Includes(s, NL)

\* C8: escapeCSVValue wraps a field in quotes, with each inner quote doubled,
\* exactly when the field holds a comma, a quote or a newline; any other field
\* comes back unchanged; and reading the result back by the standard CSV rule
\* gives the original field.
C8_EscapeRoundTrip ==
    escPc = "done" =>
        /\ IsSpecial(escIn) =>
               /\ Len(escOut) = Len(escIn) + 2 + CountChar(escIn, Quote)
               /\ escOut[1] = Quote
               /\ escOut[Len(escOut)] = Quote
               /\ CountChar(escOut, Quote) = 2 + 2 * CountChar(escIn, Quote)
        /\ ~IsSpecial(escIn) => escOut = escIn
        /\ UnescapeCSV(escOut) = escIn

C8_Witness ==
    /\ escPc = "done"
    /\ CountChar(escIn, Quote) = 2
    /\ Includes(escIn, Comma)
    /\ escOut # escIn

\* the layout C9 describes: every line ends with a newline, a section is the
\* name line, the header line when enabled and present, and the row lines
RECURSIVE ConcatLines(_)
ConcatLines(lines) ==
    IF lines = <<>> THEN <<>> ELSE Head(lines) \o <<NL>> \o ConcatLines(Tail(lines))

SectionLines(t, options) ==
    <<t.name>>
    \o (IF options.includeHeaders /\ t.headers # <<>>
        THEN <<Join([i \in 1..Len(t.headers) |-> escapeCSVValue(t.headers[i])], <<Comma>>)>>
        ELSE <<>>)
    \o [r \in 1..Len(t.rows) |->
          Join([i \in 1..Len(t.rows[r]) |-> escapeCSVValue(t.rows[r][i])], <<Comma>>)]

MetadataLines(n, config) ==
    <<config.tabName \o TitleSuffix, GeneratedAt, TablesLabel \o NumToString(n)>>

\* sections joined by exactly one blank line
StrictLayout(tablesData, config) ==
    (IF config.options.includeMetadata
     THEN ConcatLines(MetadataLines(Len(tablesData), config)) \o <<NL>> ELSE <<>>)
    \o Join([k \in 1..Len(tablesData) |-> ConcatLines(SectionLines(tablesData[k], config.options))],
            <<NL>>)

\* as StrictLayout, but a section with nothing beyond its name line is followed
\* by one more empty line
TolerantLayout(tablesData, config) ==
    (IF config.options.includeMetadata
     THEN ConcatLines(MetadataLines(Len(tablesData), config)) \o <<NL>> ELSE <<>>)
    \o Join([k \in 1..Len(tablesData) |->
               LET lines == SectionLines(tablesData[k], config.options)
               IN  ConcatLines(lines) \o (IF Len(lines) = 1 THEN <<NL>> ELSE <<>>)],
            <<NL>>)

SingleFileCase ==
    /\ csvPc = "done"
    /\ ~csvOut.threw
    /\ (~csvCfg.options.separateSheets \/ Len(csvTables) = 1)

\* C9 as stated: without separateSheets, or with one table, exportToCSV triggers
\* exactly one download: the metadata block first exactly when includeMetadata
\* is set, then per table the name line, the header line (when enabled and
\* non-empty) and one line per data row, with exactly one blank line between
\* consecutive sections.
C9_Original ==
    SingleFileCase =>
        /\ Len(csvOut.downloads) = 1
        /\ csvOut.downloads[1].content = StrictLayout(csvTables, csvCfg)

\* C9 amended: the same, except that a table which contributes neither a header
\* line nor a data row is followed by one additional empty line.
C9_Amended ==
    SingleFileCase =>
        /\ Len(csvOut.downloads) = 1
        /\ csvOut.downloads[1].fileName = csvCfg.fileName \o CsvExt
        /\ csvOut.downloads[1].content = TolerantLayout(csvTables, csvCfg)

C9_Witness ==
    /\ SingleFileCase
    /\ Len(csvTables) = 2
    /\ csvCfg.options.includeMetadata
    /\ csvCfg.options.includeHeaders
    /\ csvTables[1].headers = <<>> /\ csvTables[1].rows = <<>>
    /\ Len(csvTables[2].headers) = 2 /\ Len(csvTables[2].rows) = 2
    /\ Len(csvOut.downloads) = 1

SeparateFilesCase ==
    /\ csvPc = "done"
    /\ ~csvOut.threw
    /\ csvCfg.options.separateSheets /\ Len(csvTables) > 1

\* C16: with separateSheets and more than one table, exportToCSV triggers one
\* download per table, in table order; the k-th holds the header line of
\* table k (when enabled and non-empty) and its data rows and nothing else,
\* under the name fileName, "-", the table name with every character that is
\* no letter and no digit replaced by "_", ".csv".
C16_SeparateFiles ==
    SeparateFilesCase =>
        /\ Len(csvOut.downloads) = Len(csvTables)
        /\ \A k \in 1..Len(csvTables) :
              LET name == csvTables[k].name
                  d == csvOut.downloads[k]
              IN  /\ d.content = Join(Tail(SectionLines(csvTables[k], csvCfg.options)), <<NL>>)
                  /\ d.fileName = csvCfg.fileName \o <<"-">>
                                   \o [i \in 1..Len(name) |->
                                          IF name[i] \in Alnum THEN name[i] ELSE "_"]
                                   \o <<".", "c", "s", "v">>
                  /\ d.fileName = <<"f", "-", "T", "_", DigitChar[k + 1], ".", "c", "s", "v">>

C16_Witness ==
    /\ SeparateFilesCase
    /\ csvCfg.options.includeHeaders /\ csvCfg.options.includeMetadata
    /\ Len(csvTables) = 2
    /\ Len(csvTables[1].headers) = 2 /\ Len(csvTables[2].rows) = 2
    /\ Len(csvOut.downloads) = 2
(***************************************************************************)
(* Claims about extractTableData and exportDisplayedData (SpecExport)      *)
(***************************************************************************)
ExportSettled == epc \in {"resolved", "rejected"}

StylesAsBefore == tblStyle = InitTblStyle /\ contStyle = InitContStyle

\* C4: after every call of extractTableData, whether it returned or an error
\* was thrown at any statement of the extraction, the container's scroll offset
\* and inline overflow and the table's inline width and max-width equal their
\* values before the call, and no other table or container has changed
\* (failures of the restoring assignments themselves are the subject of C18).
C4_StylesRestored ==
    ~restoreFault => StylesAsBefore

C4_Witness ==
    /\ epc = "rejected"
    /\ eerror = "extract"
    /\ ~restoreFault
    /\ Len(etables) = 1
    /\ LiveTables(ecfg.tables)[1].element = 1
    /\ LiveTables(ecfg.tables)[2].element = 2
    /\ contStyle[2].overflow = "hidden" /\ contStyle[2].scrollLeft = 40

\* C5: exportDisplayedData sets isExporting when it starts, the flag stays set
\* for the whole export, and on every exit path (success, empty export,
\* unsupported format, extraction error, serialization error) the flag is
\* false once the call has resolved or rejected.
C5_FlagFollowsExport ==
    /\ epc \in {"extract", "catch", "finally"} => isExporting
    /\ ExportSettled => ~isExporting

C5_Witness ==
    /\ epc = "rejected"
    /\ eerror = "serialize"
    /\ ecfg.format = "pdf"
    /\ ~isExporting

\* C6: when config.tables is empty or every entry has a null element,
\* exportDisplayedData rejects with the empty-export error, nothing is
\* downloaded or saved, and isExporting is false afterwards.
C6_EmptyExportRejects ==
    (epc # "idle" /\ LiveTables(ecfg.tables) = <<>>) =>
        /\ downloads = <<>>
        /\ epc # "resolved"
        /\ ExportSettled => (epc = "rejected" /\ eerror = "empty" /\ ~isExporting)

C6_Witness ==
    /\ epc = "rejected"
    /\ Len(ecfg.tables) = 2
    /\ LiveTables(ecfg.tables) = <<>>
    /\ ecfg.format = "csv"
    /\ eerror = "empty"

SupportedFormats == {"pdf", "csv", "excel"}

\* what the csv branch downloads for the same tables and options
CsvPathDownloads == exportToCSV(etables, [ecfg EXCEPT !.format = "csv"], 0).downloads

\* C7 as stated: for every format other than pdf, csv and excel the call
\* rejects with the unsupported-format error, produces no artifact and leaves
\* every style and scroll offset as before the call; excel produces the
\* downloads of the csv path.
C7_Original ==
    /\ (ExportSettled /\ ecfg.format \notin SupportedFormats) =>
            /\ epc = "rejected"
            /\ eerror = "unsupported"
            /\ downloads = <<>>
            /\ StylesAsBefore
    /\ (epc = "resolved" /\ ecfg.format = "excel") => downloads = CsvPathDownloads

\* C7 amended: for every format other than pdf, csv and excel the call rejects
\* and produces no artifact; when at least one table was extracted and no
\* extraction failed, the error is the unsupported-format error and every
\* style and scroll offset is as before the call (an empty selection or a
\* failed extraction is reported instead, before the format is looked at);
\* excel produces the downloads of the csv path.
C7_Amended ==
    /\ (epc # "idle" /\ ecfg.format \notin SupportedFormats) =>
            /\ downloads = <<>>
            /\ epc # "resolved"
            /\ (ExportSettled /\ etables # <<>> /\ eerror \notin {"extract", "restore"}) =>
                    /\ eerror = "unsupported"
                    /\ StylesAsBefore
    /\ (epc = "resolved" /\ ecfg.format = "excel") => downloads = CsvPathDownloads

C7_Witness ==
    /\ epc = "rejected"
    /\ ecfg.format = "xlsx"
    /\ eerror = "unsupported"
    /\ Len(etables) = 2
    /\ downloads = <<>>

\* C15: when exportToPDF or exportToCSV throws, while handling whichever
\* table, the export call has downloaded and saved nothing.
C15_NoArtifactOnFailure ==
    eerror = "serialize" => downloads = <<>>

\* the recorded values that differ from those before the call
StyleDifferences ==
    {<<e, f>> \in Elems \X {"width", "maxWidth"} : tblStyle[e][f] # InitTblStyle[e][f]}
    \cup {<<c, f>> \in Conts \X {"overflow", "scrollLeft"} : contStyle[c][f] # InitContStyle[c][f]}

\* C18: when an assignment of the finally block of extractTableData throws,
\* the call of exportDisplayedData does not fail for it, and the recorded
\* values other than the one being assigned are restored.
C18_RestoreFailureRecovered ==
    (ExportSettled /\ restoreFault) =>
        /\ eerror # "restore"
        /\ Cardinality(StyleDifferences) <= 1

\* the PDF documents saved so far
PdfSaved == {k \in 1..Len(downloads) : downloads[k].kind = "pdf"}

\* the cursor with which the loop of exportToPDF reaches table i of content c
CursorBefore(c, i) ==
    IF i > 1 THEN c[i - 1].cursorAfter
    ELSE IF ecfg.options.includeMetadata THEN 58 ELSE 35

\* C24: a page is added before table i exactly when the cursor exceeds 150
\* (the page height of 210 less 60) or the table is not the first and
\* separateSheets is set; after a page break the title of the table is put at
\* 20; after a table the cursor is 15 below the end of the table, which is
\* below its start; with separateSheets every table but the first starts a
\* page, so n tables add at least n - 1 pages.
C24_PageBreaks ==
    \A d \in PdfSaved :
        LET c == downloads[d].content
        IN  /\ \A i \in 1..Len(c) :
                  /\ c[i].newPage <=> (CursorBefore(c, i) > 150
                                         \/ (i > 1 /\ ecfg.options.separateSheets))
                  /\ c[i].titleY = (IF c[i].newPage THEN 20 ELSE CursorBefore(c, i))
                  /\ c[i].startY = c[i].titleY + 10
                  /\ c[i].cursorAfter \in {c[i].startY + 10 + 15, 180 + 15}
            /\ ecfg.options.separateSheets =>
                  Cardinality({i \in 1..Len(c) : c[i].newPage}) >= Len(c) - 1

\* a PDF of two tables with separateSheets: the first table ends high on the
\* page and the second starts a page all the same
C24_Witness ==
    /\ PdfSaved # {}
    /\ ecfg.options.separateSheets
    /\ \E d \in PdfSaved :
          /\ Len(downloads[d].content) = 2
          /\ downloads[d].content[1].cursorAfter < 150
          /\ downloads[d].content[2].newPage
          /\ downloads[d].content[2].titleY = 20

\* control is in the event loop, where another task, a second call of
\* exportDisplayedData included, can run: the call has no await, so this is
\* before the call and once it has resolved or rejected
Yielded == epc \in {"idle", "resolved", "rejected"}

Reverse(s) == [k \in 1..Len(s) |-> s[Len(s) + 1 - k]]
IsPrefix(s, t) == Len(s) <= Len(t) /\ SubSeq(t, 1, Len(s)) = s
Range(s) == {s[k] : k \in 1..Len(s)}

\* C1: the entries collected by one scan (baseline pass, every pass of the tab
\* walk, final pass) never hold the same table element twice, so a table
\* that is visible under several tabs yields one entry.
C1_NoDuplicateElement ==
    \A j, k \in 1..Len(collected) :
        collected[j].element = collected[k].element => j = k

\* a resolved scan of the nested document that switched tabs while the table
\* of the scan root stayed visible, and collected that table
C1_Witness ==
    /\ spc = "resolved" /\ docId = 1
    /\ Cardinality(attempted \ activateFailed) >= 2
    /\ \E k \in 1..Len(collected) : collected[k].element = 1
    /\ Len(collected) >= 4

\* C2: when the scan has resolved, the triggers of the snapshot have been
\* clicked again in reverse snapshot order, after the walk, and every trigger
\* of the snapshot is active again.  Stated here for the triggers whose
\* restoring click did not throw, which the claim covers with all the others.
C2_SnapshotRestored ==
    spc = "resolved" =>
        /\ restored = Reverse(snapshot)
        /\ \A t \in Range(snapshot) : t \notin restoreFailed => IsActive(Doc, active, t)

\* C3 as stated: a scan that rejects after it has activated a trigger leaves
\* every trigger of the snapshot active.
C3_RestoredOnReject ==
    (spc = "rejected" /\ activatedAny) =>
        \A t \in Range(snapshot) : IsActive(Doc, active, t)

\* C10: an exception thrown by the activation of a trigger, in the walk or in
\* the restore loop, does not end the scan: the step that fails moves to
\* the next trigger of the same call and keeps what was collected, the
\* calls made by the scan itself attempt all their triggers, the restore
\* loop clicks the whole snapshot, the scan rejects only for an exception
\* outside the try blocks, and no entry ever leaves the result.
C10_FailureSwallowed ==
    /\ [](spc = "rejected" => unprotected)
    /\ [](spc = "resolved" => Range(restored) = Range(snapshot))
    /\ [](\A k \in 1..Len(stack) :
            stack[k].kind \in {"root", "panel"} =>
                \A j \in 1..(stack[k].i - 1) : stack[k].triggers[j] \in attempted)
    /\ [][ActivateThrows =>
            /\ Len(stack') = Len(stack)
            /\ stack'[Len(stack)].triggers = Top.triggers
            /\ stack'[Len(stack)].i = Top.i + 1
            /\ spc' = spc]_vars
    /\ [][RestoreThrows => (spc' = "restore" /\ ridx' = ridx - 1)]_vars
    /\ [][IsPrefix(collected, collected')]_vars

\* a resolved scan in which an activation of the walk threw and a restoring
\* click threw, with entries collected before and after
C10_Witness ==
    /\ spc = "resolved"
    /\ activateFailed # {} /\ restoreFailed # {}
    /\ attempted \ activateFailed # {}
    /\ Len(collected) >= 2

AnySettled == \E k \in 1..Len(stack) : stack[k].phase = "settled"

\* C11: the activations of one scan are sequential: a click that makes a
\* trigger active happens only when no earlier activation still awaits its
\* collection, a click of the walk leaves its trigger awaiting collection, and
\* the step after it is the collection for that trigger, before which no
\* trigger of any call or of the restore loop is clicked.
C11_Sequential ==
    /\ [](AnySettled =>
            /\ spc \in {"walk", "panels"}
            /\ \A k \in 1..Len(stack) : stack[k].phase = "settled" => k = Len(stack))
    /\ [][(active' # active \/ restored' # restored) =>
            /\ ~AnySettled
            /\ \/ spc = "restore"
               \/ /\ Len(stack') = Len(stack)
                  /\ stack'[Len(stack)].phase = "settled"
                  /\ stack'[Len(stack)].i = Top.i
                  /\ IsActive(Doc, active', Trigger)]_vars
    /\ [][AnySettled =>
            /\ active' = active /\ restored' = restored
            /\ collected' = collectVisible(Doc, active, FullTabName, Top.root,
                                [collected |-> collected, seen |-> seen]).collected
            /\ ~(\E k \in 1..Len(stack') : stack'[k].phase = "settled")]_vars

\* a resolved scan of the three-level document without exceptions, in which
\* triggers of several levels were clicked and the snapshot was restored
C11_Witness ==
    /\ spc = "resolved" /\ docId = 3 /\ faults = 0
    /\ Cardinality(attempted) >= 3
    /\ Len(restored) = 3

\* the panels around table home are all panels of button triggers
RECURSIVE BehindButtons(_, _)
BehindButtons(D, p) ==
    p = RootPanel \/ (D.trigButton[p] /\ BehindButtons(D, ParentPanel(D, p)))

\* C12: a scan that resolves without any exception has collected every table
\* that has rows and is not hidden by its own style, whichever panels it
\* lies in (stated here for the panels of button triggers, the only
\* triggers the walk clicks).
C12_AllTablesDiscovered ==
    (spc = "resolved" /\ faults = 0) =>
        \A tb \in Tables(Doc) :
            (Doc.tblRows[tb] > 0 /\ ~Doc.tblHidden[tb] /\ BehindButtons(Doc, Doc.tblHome[tb]))
                => tb \in seen

\* C17: every entry was visible and had rows when it was added; scanForTables
\* reports no table as visible that is hidden by its style or is not
\* rendered; and an entry, once collected, is neither removed nor changed
\* when a later activation hides its table.
C17_PointInTime ==
    /\ [](\A k \in 1..Len(collected) :
            /\ collected[k].isVisible /\ collected[k].rowCount > 0
            /\ ~Doc.tblHidden[collected[k].element]
            /\ Doc.tblRows[collected[k].element] > 0)
    /\ [](\A root \in {RootPanel} \cup Trigs(Doc) :
            \A k \in 1..Len(scanForTables(Doc, active, root)) :
                LET t == scanForTables(Doc, active, root)[k]
                IN  t.isVisible =>
                      /\ ~Doc.tblHidden[t.element]
                      /\ Rendered(Doc, active, Doc.tblHome[t.element]))
    /\ [][/\ IsPrefix(collected, collected')
          /\ \A k \in (Len(collected) + 1)..Len(collected') :
                /\ Rendered(Doc, active', Doc.tblHome[collected'[k].element])
                /\ ~Doc.tblHidden[collected'[k].element]]_vars

\* a resolved scan of the nested document whose result holds a table that
\* is no longer rendered, next to the table of the root
C17_Witness ==
    /\ spc = "resolved" /\ docId = 1
    /\ \E k \in 1..Len(collected) : ~Rendered(Doc, active, Doc.tblHome[collected[k].element])
    /\ 1 \in seen /\ 7 \notin seen /\ 6 \notin seen

\* the labels of the tabs that enclose trigger t and of t itself, outermost
\* first
RECURSIVE TrigPath(_, _)
TrigPath(D, t) ==
    IF ParentPanel(D, t) = RootPanel THEN <<D.trigLabel[t]>>
    ELSE TrigPath(D, ParentPanel(D, t)) \o <<D.trigLabel[t]>>

\* panel p is the panel of trigger t or lies inside it
RECURSIVE PanelInside(_, _, _)
PanelInside(D, p, t) ==
    IF p = t THEN TRUE
    ELSE IF p = RootPanel THEN FALSE
    ELSE PanelInside(D, ParentPanel(D, p), t)

\* the entries collected by the collectVisible call that follows an activation
AfterActivation(e) ==
    e.prefix \notin {<<"Initial Active Content">>, <<"Final Restored State">>}

\* C21: in a run without exception, a table first collected after the
\* activation of a trigger lies in the panel of this trigger and carries as
\* prefix the labels of the tabs that enclose the trigger and of the trigger,
\* outermost first (the name joins them with " > ").
C21_PathPrefix ==
    faults = 0 =>
        \A k \in 1..Len(collected) :
            AfterActivation(collected[k]) =>
                \E t \in Trigs(Doc) :
                    /\ Doc.trigLabel[t] = collected[k].prefix[Len(collected[k].prefix)]
                    /\ PanelInside(Doc, Doc.tblHome[collected[k].element], t)
                    /\ collected[k].prefix = TrigPath(Doc, t)

\* the run is in an iteration at the deepest level allowed, after its waits
AtCap == stack # <<>> /\ Top.level = MaxLevel /\ AtTrigger /\ Top.phase = "settled"

\* C22: every run ends, resolved or rejected; no processTabLevel call in
\* progress has a level above 5; and the call made from an iteration at
\* level 5 returns at once: it opens no frame, clicks nothing and throws
\* nothing.
C22_BoundedWalk ==
    /\ <>(spc \in {"resolved", "rejected"})
    /\ [](\A k \in 1..Len(stack) : stack[k].level <= 5)
    /\ [][AtCap => /\ Len(stack') = Len(stack)
                   /\ active' = active /\ attempted' = attempted
                   /\ faults' = faults /\ spc' = spc]_vars

\* the iteration at level 5 on R6 is over: the call on the panel of R6, in
\* which R7 is an inactive trigger, has returned and R7 was not clicked
C22_Witness ==
    /\ spc = "walk" /\ stack # <<>> /\ Top.level = MaxLevel
    /\ Top.i > 1 /\ Top.triggers[Top.i - 1] = 12 /\ Top.phase = "click"
    /\ active[6] = 12
    /\ InactiveTriggers(Doc, active, 12) = <<14>>
    /\ 14 \notin attempted

\* C23: no two entries of the result of a run have the same id, and no two
\* entries of one scanForTables call have the same id (Date.now() does not
\* go backwards during the run and each completed timer advances it).
C23_UniqueIds ==
    /\ \A j, k \in 1..Len(collected) : collected[j].id = collected[k].id => j = k
    /\ \A root \in {RootPanel} \cup Trigs(Doc) :
          LET found == scanForTables(Doc, active, root)
          IN  \A j, k \in 1..Len(found) : found[j].id = found[k].id => j = k

\* a resolved run whose result holds two entries of index 0 under the same
\* prefix, from two collectVisible calls
C23_Witness ==
    /\ spc = "resolved"
    /\ \E j, k \in 1..Len(collected) :
          /\ j # k
          /\ collected[j].index = collected[k].index
          /\ collected[j].prefix = collected[k].prefix
          /\ collected[j].element # collected[k].element

(***************************************************************************)
(* Claims about the extraction of extractTableData                         *)
(***************************************************************************)
\* row 0 is taken as the header row
HeaderRowExists ==
    exRows # <<>> /\ (RowHasTh(exRows[1]) \/ exOpts.includeHeaders)

\* the rows of the table that are not the header row, in source order
SourceDataRows == IF HeaderRowExists THEN Tail(exRows) ELSE exRows

\* the cell values of a source row, without row number
PlainRow(row) == [i \in 1..Len(row) |-> CellValue(row[i], exOpts)]

PlainHeader == IF HeaderRowExists THEN PlainRow(exRows[1]) ELSE <<>>

NumbersInRows ==
    /\ Len(exOut.rows) = Len(SourceDataRows)
    /\ \A k \in 1..Len(exOut.rows) :
          exOut.rows[k] = IF exOpts.includeRowNumbers
                          THEN <<NumToString(k)>> \o PlainRow(SourceDataRows[k])
                          ELSE PlainRow(SourceDataRows[k])

\* C13 as stated: with includeRowNumbers the k-th data row, counted from 1
\* over the data rows, starts with the numeral k, and the header row starts
\* with "#" exactly when a header row exists; without includeRowNumbers rows
\* and header are the plain ones.
C13_Original ==
    exPc = "done" =>
        /\ NumbersInRows
        /\ exOut.headers = IF exOpts.includeRowNumbers /\ HeaderRowExists
                           THEN <<<<"#">>>> \o PlainHeader
                           ELSE PlainHeader

\* C13, amended: the same, with "#" prepended exactly when the header row
\* has at least one cell.
C13_Amended ==
    exPc = "done" =>
        /\ NumbersInRows
        /\ exOut.headers = IF exOpts.includeRowNumbers /\ Len(PlainHeader) > 0
                           THEN <<<<"#">>>> \o PlainHeader
                           ELSE PlainHeader

\* a header row of th cells and two data rows, numbered
C13_Witness ==
    /\ exPc = "done" /\ exOpts.includeRowNumbers /\ ~exOpts.includeHeaders
    /\ Len(exRows) = 3 /\ RowHasTh(exRows[1])
    /\ exOut.headers = <<<<"#">>, <<"h">>>>
    /\ exOut.rows[2][1] = <<"2">>

\* a row or a header without its row number
Unnumbered(r) == IF exOpts.includeRowNumbers /\ r # <<>> THEN Tail(r) ELSE r

\* C14: row 0 is the header row if and only if it holds a th cell or
\* includeHeaders is set, otherwise it is the first data row; the rows after
\* row 0 are data rows, in source order.
C14_HeaderRowRule ==
    exPc = "done" =>
        LET header == exRows # <<>> /\ (exOpts.includeHeaders \/ \E i \in 1..Len(exRows[1]) : exRows[1][i].th)
            off == IF header THEN 1 ELSE 0
        IN  /\ Unnumbered(exOut.headers) = (IF header THEN PlainRow(exRows[1]) ELSE <<>>)
            /\ Len(exOut.rows) = Len(exRows) - off
            /\ \A k \in 1..Len(exOut.rows) :
                  Unnumbered(exOut.rows[k]) = PlainRow(exRows[k + off])

\* includeHeaders set and a row 0 of td cells only, followed by two rows
C14_Witness ==
    /\ exPc = "done" /\ exOpts.includeHeaders
    /\ Len(exRows) = 3 /\ ~RowHasTh(exRows[1]) /\ Len(exRows[1]) = 2
    /\ Len(exOut.headers) >= 2 /\ Len(exOut.rows) = 2

\* C25: with includeMetadata the metadata holds the number of rows of the
\* table, header row included, and the number of cells of the source header
\* row, whatever includeRowNumbers is; without includeMetadata there is no
\* metadata.
C25_Metadata ==
    exPc = "done" =>
        IF exOpts.includeMetadata
        THEN /\ exOut.metadata.present
             /\ exOut.metadata.originalRowCount = Len(exRows)
             /\ HeaderRowExists => exOut.metadata.originalColumnCount = Len(exRows[1])
        ELSE ~exOut.metadata.present

\* the first currency symbol of a text, <<>> when it has none
RECURSIVE FirstSymbol(_)
FirstSymbol(s) ==
    IF s = <<>> THEN <<>>
    ELSE IF Head(s) \in {Dollar, Euro, Pound} THEN <<Head(s)>>
    ELSE FirstSymbol(Tail(s))

\* the value C26 states for a cell
StatedValue(cell) ==
    IF exOpts.preserveFormatting
       /\ FirstSymbol(cell.html) # <<>> /\ FirstSymbol(Trim(cell.text)) = <<>>
    THEN FirstSymbol(cell.html) \o Trim(cell.text)
    ELSE Trim(cell.text)

\* C26: the value of a cell is its trimmed text, and with preserveFormatting
\* the first of $, euro, pound found in the markup is put in front of it when
\* the markup holds one and the trimmed text none.
C26_CurrencyPrepended ==
    exPc = "done" =>
        /\ HeaderRowExists =>
              Unnumbered(exOut.headers) = [i \in 1..Len(exRows[1]) |-> StatedValue(exRows[1][i])]
        /\ \A k \in 1..Len(exOut.rows) :
              k <= Len(SourceDataRows) =>
                  Unnumbered(exOut.rows[k])
                      = [i \in 1..Len(SourceDataRows[k]) |-> StatedValue(SourceDataRows[k][i])]

\* every row of the table has n cells
Rectangular(n) == \A k \in 1..Len(exRows) : Len(exRows[k]) = n

\* C27 as stated: when all rows have the same number of cells and row 0 is
\* the header row, the headers and every data row have the same length.
C27_Original ==
    (exPc = "done" /\ HeaderRowExists /\ \E n \in 0..2 : Rectangular(n)) =>
        \A k \in 1..Len(exOut.rows) : Len(exOut.rows[k]) = Len(exOut.headers)

\* C27, amended: the same for rows of at least one cell.
C27_Amended ==
    (exPc = "done" /\ HeaderRowExists /\ \E n \in 1..2 : Rectangular(n)) =>
        \A k \in 1..Len(exOut.rows) : Len(exOut.rows[k]) = Len(exOut.headers)

\* three rows of two cells, the first taken as header, numbered
C27_Witness ==
    /\ exPc = "done" /\ exOpts.includeRowNumbers /\ HeaderRowExists
    /\ Len(exRows) = 3 /\ Rectangular(2)
    /\ Len(exOut.headers) = 3 /\ Len(exOut.rows) = 2 /\ Len(exOut.rows[2]) = 3

\* the number of lines of a CSV content without line breaks inside fields
LineCount(s) == Cardinality({i \in 1..Len(s) : s[i] = NL}) + 1

\* C30 as stated, for a table with rows that all have cells: the content has
\* as many lines as the table has rows.
C30_Original ==
    (exPc = "serialized" /\ exRows # <<>> /\ \A k \in 1..Len(exRows) : exRows[k] # <<>>)
        => LineCount(exCsv) = Len(exRows)

\* the header row is left out of the content: includeHeaders is unset or the
\* header row has no cell
HeaderDropped == HeaderRowExists /\ (~exOpts.includeHeaders \/ exRows[1] = <<>>)

\* C30, amended: every data row gives one line, in source order, and the
\* header row gives the first line unless it is left out; a table with at
\* least one row besides a header row left out has as many lines as rows,
\* less one when the header row is left out.
C30_Amended ==
    (exPc = "serialized" /\ exRows # <<>>) =>
        LET lines == (IF HeaderRowExists /\ ~HeaderDropped
                      THEN <<CSVLine(exOut.headers)>> ELSE <<>>)
                     \o [k \in 1..Len(SourceDataRows) |-> CSVLine(exOut.rows[k])]
        IN  /\ Len(exOut.rows) = Len(SourceDataRows)
            /\ exCsv = Join(lines, <<NL>>)
            /\ lines # <<>> =>
                  LineCount(exCsv) = Len(exRows) - (IF HeaderDropped THEN 1 ELSE 0)

\* a table of a th row and two data rows serialized without includeHeaders:
\* two lines
C30_Witness ==
    /\ exPc = "serialized" /\ ~exOpts.includeHeaders
    /\ Len(exRows) = 3 /\ RowHasTh(exRows[1])
    /\ LineCount(exCsv) = 2

(***************************************************************************)
(* Claims about the naming of scanForTables                                *)
(***************************************************************************)
\* the siblings the loop examines
Examined == SubSeq(Siblings, 1, IF Len(Siblings) < SearchLimit THEN Len(Siblings) ELSE SearchLimit)

HeadingAt(k) == Examined[k].heading /\ \A j \in 1..(k - 1) : ~Examined[j].heading

NoHeading == \A k \in 1..Len(Examined) : ~Examined[k].heading

\* the positions of the examined siblings whose text is a short snippet
SnippetAt ==
    {k \in 1..Len(Examined) :
        ~Examined[k].heading /\ Trim(Examined[k].text) # <<>>
        /\ Len(Trim(Examined[k].text)) < SnippetLimit}

\* C19: the name is the caption's text when the table has a caption;
\* otherwise, when a heading is among the up to 5 preceding siblings, the
\* text of the nearest such heading, whatever short texts lie between it
\* and the table.  Stated here for captions and headings whose text is not
\* empty.
C19_CaptionThenHeading ==
    nmPc = "done" =>
        /\ (nmCaption # 0 /\ Trim(CaptionPool[nmCaption]) # <<>>)
              => nmOut = Trim(CaptionPool[nmCaption])
        /\ nmCaption = 0 =>
              \A k \in 1..Len(Examined) :
                  (HeadingAt(k) /\ Trim(Examined[k].text) # <<>>)
                      => nmOut = Trim(Examined[k].text)

\* C20: without caption and without heading among the up to 5 preceding
\* siblings, the name is the snippet of the sibling nearest to the table
\* among those with a short text, and "Table N", N the position of the table
\* from 1, when there is none.
C20_NearestSnippet ==
    (nmPc = "done" /\ nmCaption = 0 /\ NoHeading) =>
        nmOut = IF SnippetAt = {}
                THEN TableWord \o NumToString(nmIndex + 1)
                ELSE Trim(Examined[CHOOSE k \in SnippetAt : \A j \in SnippetAt : k <= j].text)

(***************************************************************************)
(* Claims about the export buttons of TableExportControls                  *)
(***************************************************************************)
\* the invocations of handleAdvancedExport inside their tab walk
Walking == {i \in Calls : hPc[i] = "scan"}

\* C29: at most one tab walk is in progress at any time: while an invocation
\* of handleAdvancedExport is inside scanForTablesIncludingSubTabs, no click
\* on an export button starts another, so the activations of two walks never
\* interleave.
C29_SingleWalk ==
    /\ Cardinality(Walking) <= 1
    /\ \A j, k \in 1..Len(hLog) : (j < k /\ hLog[j] # hLog[k]) => hLeft[hLog[j]] = 0
====
